---- MODULE Spec2Model ----
(***************************************************************************)
(* Model of llm-osd: the unix-socket daemon that reads one ActionPlan per  *)
(* connection, validates it, applies the policy gates, dispatches every    *)
(* action in execute or plan_only mode, writes one ActionPlanResult and    *)
(* appends an audit record.                                                *)
(*                                                                         *)
(* Strings that come from the request (argv, paths, tokens, ids) are       *)
(* sequences of one-character strings, so that trim / starts_with / path   *)
(* components are computed as the code computes them.  Fixed messages and  *)
(* enum tags are TLA+ strings.  Option<T> is a sequence of length 0 or 1.  *)
(***************************************************************************)
EXTENDS Integers, Sequences, FiniteSets, TLC

VARIABLES
    confirm_token,  \* the daemon's configured confirmation token (run's argument)
    pc,             \* position of run / handle_client
    client,         \* the peer: what it wants to send and what it has done so far
    pending,        \* bytes written by the peer and not yet read by the server
    timer,          \* ticks the current stream.read has waited without data
    input,          \* handle_client: input.len()
    exceeded,       \* handle_client: exceeded
    idle,           \* handle_client: idle
    received,       \* total bytes returned by stream.read on this connection
    plan,           \* handle_client: Option of the parsed plan
    idx,            \* number of actions of the plan already dispatched
    results,        \* handle_client: results
    effects,        \* what the handlers did to the host on this connection
    response,       \* Option of the ActionPlanResult handed to write_all
    wire,           \* documents the peer received on this connection
    wshut,          \* the connection is shut down for writes
    auditLog,       \* the audit file: one record per appended line
    ret,            \* what handle_client returned: "none", "ok" or "err"
    polIn,          \* policy evaluation: the inputs drawn
    polOut,         \* policy evaluation: Option of the outcome
    valIn,          \* validation: the plan drawn
    valOut,         \* validation: Option of what validate_action_plan returned
    rd,             \* files::read: the file, max and the locals of the read loop
    cli,            \* llmsh send: the input, the overrides and what was written
    aud             \* concurrent connections: their audit appends and the file

vars == <<confirm_token, pc, client, pending, timer, input, exceeded, idle,
          received, plan, idx, results, effects, response, wire, wshut,
          auditLog, ret, polIn, polOut, valIn, valOut, rd, cli, aud>>

----------------------------------------------------------------------------
(* Program constants *)

MAX_REQUEST_BYTES == 262144
BUF_SIZE == 4096
READ_IDLE_TIMEOUT == 2
MAX_ACTIONS == 64
MAX_EXEC_ARGC == 64
MAX_EXEC_ARG_BYTES == 2048
MAX_EXEC_ENV_ENTRIES == 32
MAX_EXEC_ENV_KEY_BYTES == 128
MAX_EXEC_ENV_VALUE_BYTES == 2048
MAX_REQUEST_ID_BYTES == 128
MAX_SESSION_ID_BYTES == 128
MAX_TOKEN_BYTES == 1024
MAX_REASON_BYTES == 2048
MAX_PATH_BYTES == 4096
MAX_VERSION_BYTES == 128
MAX_MODE_BYTES == 128
MAX_EXEC_TIMEOUT_SEC == 60
MAX_READ_FILE_BYTES == 65536
MAX_WRITE_FILE_BYTES == 65536
MAX_SYSTEMD_UNIT_BYTES == 256
MAX_PACKAGE_NAME_BYTES == 128
MAX_PACKAGES == 128
MAX_OBSERVE_ARGS == 64
MAX_OBSERVE_ARG_BYTES == 2048

----------------------------------------------------------------------------
(* Option and string helpers *)

None == <<>>
Some(x) == <<x>>
IsSome(o) == o # <<>>
Unwrap(o) == o[1]

Min(a, b) == IF a < b THEN a ELSE b

IsWs(c) == c \in {" ", "\t", "\n"}

RECURSIVE TrimStart(_)
TrimStart(s) ==
    IF s = <<>> THEN s
    ELSE IF IsWs(Head(s)) THEN TrimStart(Tail(s)) ELSE s

RECURSIVE TrimEnd(_)
TrimEnd(s) ==
    IF s = <<>> THEN s
    ELSE IF IsWs(s[Len(s)]) THEN TrimEnd(SubSeq(s, 1, Len(s) - 1)) ELSE s

\* str::trim
Trim(s) == TrimEnd(TrimStart(s))

\* str::starts_with
StartsWith(s, p) == Len(s) >= Len(p) /\ SubSeq(s, 1, Len(p)) = p

\* str::strip_prefix(p).unwrap_or(s)
StripPrefix(s, p) == IF StartsWith(s, p) THEN SubSeq(s, Len(p) + 1, Len(s)) ELSE s

\* the pieces of s between occurrences of sep (empty pieces included)
RECURSIVE SplitAcc(_, _, _)
SplitAcc(s, sep, cur) ==
    IF s = <<>> THEN <<cur>>
    ELSE IF Head(s) = sep THEN <<cur>> \o SplitAcc(Tail(s), sep, <<>>)
    ELSE SplitAcc(Tail(s), sep, Append(cur, Head(s)))

Split(s, sep) == SplitAcc(s, sep, <<>>)

\* std::path::Path::components on unix: repeated separators and a trailing
\* separator are dropped, "." is dropped unless it leads a relative path,
\* ".." is always a ParentDir component.
RECURSIVE ComponentsOf(_, _)
ComponentsOf(segs, first) ==
    IF segs = <<>> THEN <<>>
    ELSE LET seg == Head(segs)
             rest == ComponentsOf(Tail(segs), FALSE)
         IN  IF seg = <<>> THEN ComponentsOf(Tail(segs), first)
             ELSE IF seg = <<".", ".">> THEN <<[kind |-> "ParentDir", name |-> seg]>> \o rest
             ELSE IF seg = <<".">> THEN
                      IF first THEN <<[kind |-> "CurDir", name |-> seg]>> \o rest ELSE rest
             ELSE <<[kind |-> "Normal", name |-> seg]>> \o rest

Components(path) ==
    IF path = <<>> THEN <<>>
    ELSE IF Head(path) = "/"
         THEN <<[kind |-> "RootDir", name |-> <<"/">>]>> \o ComponentsOf(Split(Tail(path), "/"), FALSE)
         ELSE ComponentsOf(Split(path, "/"), TRUE)

----------------------------------------------------------------------------
(* policy.rs *)

S_echo == <<"e", "c", "h", "o">>
S_bin_echo == <<"/", "b", "i", "n", "/">> \o S_echo
S_rm == <<"r", "m">>
S_bin_rm == <<"/", "b", "i", "n", "/">> \o S_rm
S_dd == <<"d", "d">>
S_mkfs == <<"m", "k", "f", "s">>
S_mkfs_ext4 == S_mkfs \o <<".", "e", "x", "t", "4">>
S_shutdown == <<"s", "h", "u", "t", "d", "o", "w", "n">>
S_reboot == <<"r", "e", "b", "o", "o", "t">>
S_bin == <<"/", "b", "i", "n", "/">>
S_sbin == <<"/", "s", "b", "i", "n", "/">>
S_tmp_slash == <<"/", "t", "m", "p", "/">>

exec_allowed_without_confirmation(program) ==
    program \in {S_bin_echo, S_echo}

is_exec_denied(exec) ==
    IF exec.argv = <<>> THEN TRUE
    ELSE LET program == exec.argv[1]
         IN  \/ program \in {S_bin \o S_dd, S_dd}
             \/ program \in {S_sbin \o S_mkfs, S_sbin \o S_mkfs_ext4, S_mkfs, S_mkfs_ext4}
             \/ program \in {S_sbin \o S_shutdown, S_shutdown}
             \/ program \in {S_sbin \o S_reboot, S_reboot}

\* faulty variant: only rm asks for a confirmation, the allow-set is not consulted
exec_requires_confirmation_RmOnly(exec) ==
    IF exec.argv = <<>> THEN TRUE
    ELSE exec.argv[1] \in {S_bin_rm, S_rm}

exec_requires_confirmation(exec) ==
    IF exec.argv = <<>> THEN TRUE
    ELSE LET program == exec.argv[1]
         IN  IF program \in {S_bin_rm, S_rm} THEN TRUE
             ELSE ~exec_allowed_without_confirmation(program)

\* faulty variant: the prefix is compared without its trailing separator
path_requires_confirmation_TmpPrefix(path) ==
    LET is_sensitive_abs == StartsWith(path, <<"/">>) /\ ~StartsWith(path, <<"/", "t", "m", "p">>)
        comps == Components(path)
        has_parent_dir == \E i \in 1..Len(comps) : comps[i].kind = "ParentDir"
    IN  is_sensitive_abs \/ has_parent_dir

path_requires_confirmation(path) ==
    LET is_sensitive_abs == StartsWith(path, <<"/">>) /\ ~StartsWith(path, S_tmp_slash)
        comps == Components(path)
        has_parent_dir == \E i \in 1..Len(comps) : comps[i].kind = "ParentDir"
    IN  is_sensitive_abs \/ has_parent_dir

\* faulty variant: the token is compared as sent, untrimmed
confirmation_is_valid_NoTrim(token, expected_token) ==
    IF IsSome(token) THEN Unwrap(token) = expected_token ELSE FALSE

confirmation_is_valid(token, expected_token) ==
    IF IsSome(token) THEN Trim(Unwrap(token)) = expected_token ELSE FALSE

----------------------------------------------------------------------------
(* llm-os-common: validate_action_plan *)

\* the message of the first check that fails, in the order written
FirstErr(checks) ==
    LET failing == { i \in 1..Len(checks) : checks[i][1] }
    IN  IF failing = {} THEN None
        ELSE Some(checks[CHOOSE i \in failing : \A j \in failing : i <= j][2])

\* Ok(()) is None, Err(ValidationError { message }) is Some(message)
OrElse(first, second) == IF IsSome(first) THEN first ELSE second

OctalDigits == {"0", "1", "2", "3", "4", "5", "6", "7"}

is_octal_mode(mode) ==
    LET m == StripPrefix(Trim(mode), <<"0", "o">>)
    IN  IF Len(m) # 3 /\ Len(m) # 4 THEN FALSE
        ELSE \A i \in 1..Len(m) : m[i] \in OctalDigits

require_confirmation(p, message) ==
    IF IsSome(p.confirmation) /\ Trim(Unwrap(p.confirmation).token) # <<>>
    THEN None
    ELSE Some(message)

\* for (k, v) in env: the key check, then the value check, entry by entry
EnvChecks(entries) ==
    [ k \in 1..(2 * Len(entries)) |->
        IF k % 2 = 1
        THEN <<Len(entries[(k + 1) \div 2][1]) > MAX_EXEC_ENV_KEY_BYTES,
               "exec.env key is too long">>
        ELSE <<Len(entries[k \div 2][2]) > MAX_EXEC_ENV_VALUE_BYTES,
               "exec.env value is too long">> ]

\* for pkg in packages / for arg in args: blank check, then length check
EntryChecks(entries, maxBytes, blankMsg, longMsg) ==
    [ k \in 1..(2 * Len(entries)) |->
        IF k % 2 = 1
        THEN <<Trim(entries[(k + 1) \div 2]) = <<>>, blankMsg>>
        ELSE <<Len(entries[k \div 2]) > maxBytes, longMsg>> ]

DangerRecoveryChecks(a) ==
    <<  <<IsSome(a.danger) /\ Len(Unwrap(a.danger)) > MAX_REASON_BYTES, "danger is too long">>,
        <<IsSome(a.recovery) /\ Len(Unwrap(a.recovery)) > MAX_REASON_BYTES, "recovery is too long">> >>

validate_exec(p, exec) ==
    OrElse(
        FirstErr(
            <<  <<exec.argv = <<>>, "exec.argv must be non-empty">>,
                <<exec.as_root, "exec.as_root is not supported">>,
                <<Len(exec.argv) > MAX_EXEC_ARGC, "exec.argv has too many args">>,
                <<\E i \in 1..Len(exec.argv) : Len(exec.argv[i]) > MAX_EXEC_ARG_BYTES,
                  "exec.argv arg is too long">>,
                <<IsSome(exec.cwd) /\ Trim(Unwrap(exec.cwd)) = <<>>,
                  "exec.cwd must be non-empty when provided">>,
                <<IsSome(exec.env) /\ Len(Unwrap(exec.env)) > MAX_EXEC_ENV_ENTRIES,
                  "exec.env has too many entries">> >>
            \o (IF IsSome(exec.env) THEN EnvChecks(Unwrap(exec.env)) ELSE <<>>)
            \o <<  <<exec.timeout_sec = 0, "exec.timeout_sec must be >= 1">>,
                   <<exec.timeout_sec > MAX_EXEC_TIMEOUT_SEC, "exec.timeout_sec is too large">>,
                   <<Trim(exec.reason) = <<>>, "exec.reason must be non-empty">>,
                   <<Len(exec.reason) > MAX_REASON_BYTES, "reason is too long">> >>
            \o DangerRecoveryChecks(exec)),
        IF IsSome(exec.danger)
        THEN require_confirmation(p, "exec requires confirmation when danger is set")
        ELSE None)

validate_read_file(p, read) ==
    OrElse(
        FirstErr(
            <<  <<Trim(read.path) = <<>>, "read_file.path must be non-empty">>,
                <<Len(read.path) > MAX_PATH_BYTES, "path is too long">>,
                <<read.max_bytes = 0, "read_file.max_bytes must be >= 1">>,
                <<read.max_bytes > MAX_READ_FILE_BYTES, "read_file.max_bytes is too large">>,
                <<Trim(read.reason) = <<>>, "read_file.reason must be non-empty">>,
                <<Len(read.reason) > MAX_REASON_BYTES, "reason is too long">> >>
            \o DangerRecoveryChecks(read)),
        IF IsSome(read.danger)
        THEN require_confirmation(p, "read_file requires confirmation when danger is set")
        ELSE None)

validate_write_file(p, write) ==
    OrElse(
        FirstErr(
            <<  <<Trim(write.path) = <<>>, "write_file.path must be non-empty">>,
                <<Len(write.path) > MAX_PATH_BYTES, "path is too long">>,
                <<Len(write.content) > MAX_WRITE_FILE_BYTES, "write_file.content is too large">>,
                <<Trim(write.mode) = <<>>, "write_file.mode must be non-empty">>,
                <<Len(write.mode) > MAX_MODE_BYTES, "write_file.mode is too long">>,
                <<~is_octal_mode(write.mode), "write_file.mode is invalid">>,
                <<Trim(write.reason) = <<>>, "write_file.reason must be non-empty">>,
                <<Len(write.reason) > MAX_REASON_BYTES, "reason is too long">> >>
            \o DangerRecoveryChecks(write)),
        IF IsSome(write.danger)
        THEN require_confirmation(p, "write_file requires confirmation when danger is set")
        ELSE None)

validate_service_control(svc) ==
    FirstErr(
        <<  <<Trim(svc.unit) = <<>>, "service_control.unit must be non-empty">>,
            <<Len(svc.unit) > MAX_SYSTEMD_UNIT_BYTES, "service_control.unit is too long">>,
            <<Trim(svc.reason) = <<>>, "service_control.reason must be non-empty">>,
            <<Len(svc.reason) > MAX_REASON_BYTES, "service_control.reason is too long">> >>)

validate_install_packages(pkgs) ==
    FirstErr(
        <<  <<pkgs.packages = <<>>, "install_packages.packages must be non-empty">>,
            <<Len(pkgs.packages) > MAX_PACKAGES, "install_packages.packages has too many entries">> >>
        \o EntryChecks(pkgs.packages, MAX_PACKAGE_NAME_BYTES,
                       "install_packages.packages entries must be non-empty",
                       "install_packages.packages entry is too long")
        \o <<  <<Trim(pkgs.reason) = <<>>, "install_packages.reason must be non-empty">>,
               <<Len(pkgs.reason) > MAX_REASON_BYTES, "install_packages.reason is too long">> >>)

validate_remove_packages(pkgs) ==
    FirstErr(
        <<  <<pkgs.packages = <<>>, "remove_packages.packages must be non-empty">>,
            <<Len(pkgs.packages) > MAX_PACKAGES, "remove_packages.packages has too many entries">> >>
        \o EntryChecks(pkgs.packages, MAX_PACKAGE_NAME_BYTES,
                       "remove_packages.packages entries must be non-empty",
                       "remove_packages.packages entry is too long")
        \o <<  <<Trim(pkgs.reason) = <<>>, "remove_packages.reason must be non-empty">>,
               <<Len(pkgs.reason) > MAX_REASON_BYTES, "remove_packages.reason is too long">> >>)

validate_update_system(upd) ==
    FirstErr(
        <<  <<Trim(upd.reason) = <<>>, "update_system.reason must be non-empty">>,
            <<Len(upd.reason) > MAX_REASON_BYTES, "update_system.reason is too long">> >>)

validate_observe(obs) ==
    FirstErr(
        <<  <<Len(obs.args) > MAX_OBSERVE_ARGS, "observe.args has too many entries">> >>
        \o EntryChecks(obs.args, MAX_OBSERVE_ARG_BYTES,
                       "observe.args entries must be non-empty",
                       "observe.args entry is too long")
        \o <<  <<Trim(obs.reason) = <<>>, "observe.reason must be non-empty">>,
               <<Len(obs.reason) > MAX_REASON_BYTES, "observe.reason is too long">> >>)

validate_cgroup_apply(cg) ==
    FirstErr(
        <<  <<~IsSome(cg.pid) /\ ~IsSome(cg.unit), "cgroup_apply requires pid or unit">>,
            <<IsSome(cg.pid) /\ IsSome(cg.unit), "cgroup_apply must not set both pid and unit">>,
            <<IsSome(cg.unit) /\ Trim(Unwrap(cg.unit)) = <<>>,
              "cgroup_apply.unit must be non-empty when provided">>,
            <<IsSome(cg.unit) /\ Len(Unwrap(cg.unit)) > MAX_SYSTEMD_UNIT_BYTES,
              "cgroup_apply.unit is too long">>,
            <<~IsSome(cg.cpu_weight) /\ ~IsSome(cg.mem_max_bytes),
              "cgroup_apply requires at least one setting">>,
            <<Trim(cg.reason) = <<>>, "cgroup_apply.reason must be non-empty">>,
            <<Len(cg.reason) > MAX_REASON_BYTES, "cgroup_apply.reason is too long">> >>)

\* one arm of the match in the loop over plan.actions
validate_action(p, a) ==
    CASE a.type = "exec" -> validate_exec(p, a)
      [] a.type = "read_file" -> validate_read_file(p, a)
      [] a.type = "write_file" -> validate_write_file(p, a)
      [] a.type = "service_control" -> validate_service_control(a)
      [] a.type = "install_packages" -> validate_install_packages(a)
      [] a.type = "remove_packages" -> validate_remove_packages(a)
      [] a.type = "update_system" -> validate_update_system(a)
      [] a.type = "observe" -> validate_observe(a)
      [] a.type = "cgroup_apply" -> validate_cgroup_apply(a)
      [] OTHER -> None

\* for action in &plan.actions, returning at the first Err
RECURSIVE validate_actions(_, _)
validate_actions(p, actions) ==
    IF actions = <<>> THEN None
    ELSE OrElse(validate_action(p, Head(actions)), validate_actions(p, Tail(actions)))

validate_plan_fields(p) ==
    FirstErr(
        <<  <<Len(p.actions) > MAX_ACTIONS, "too many actions">>,
            <<Trim(p.request_id) = <<>>, "request_id must be non-empty">>,
            <<Len(p.request_id) > MAX_REQUEST_ID_BYTES, "request_id is too long">>,
            <<IsSome(p.session_id) /\ Trim(Unwrap(p.session_id)) = <<>>,
              "session_id must be non-empty when provided">>,
            <<IsSome(p.session_id) /\ Len(Unwrap(p.session_id)) > MAX_SESSION_ID_BYTES,
              "session_id is too long">>,
            <<IsSome(p.confirmation) /\ Trim(Unwrap(p.confirmation).token) = <<>>,
              "confirmation.token must be non-empty">>,
            <<IsSome(p.confirmation) /\ Len(Unwrap(p.confirmation).token) > MAX_TOKEN_BYTES,
              "confirmation.token is too long">>,
            <<Trim(p.version) = <<>>, "version must be non-empty">>,
            <<Len(p.version) > MAX_VERSION_BYTES, "version is too long">> >>)

\* faulty variant: the loop over the actions stops after the first one
validate_action_plan_FirstActionOnly(p) ==
    OrElse(validate_plan_fields(p),
           IF p.actions = <<>> THEN None ELSE validate_action(p, Head(p.actions)))

validate_action_plan(p) ==
    OrElse(validate_plan_fields(p), validate_actions(p, p.actions))

----------------------------------------------------------------------------
(* llm-osd: the action handlers *)

S_unknown == <<"u", "n", "k", "n", "o", "w", "n">>
\* the words plan_action builds its argv from
PlanWords ==
    [ systemctl |-> <<"s", "y", "s", "t", "e", "m", "c", "t", "l">>,
      start |-> <<"s", "t", "a", "r", "t">>,
      stop |-> <<"s", "t", "o", "p">>,
      restart |-> <<"r", "e", "s", "t", "a", "r", "t">>,
      enable |-> <<"e", "n", "a", "b", "l", "e">>,
      disable |-> <<"d", "i", "s", "a", "b", "l", "e">>,
      status |-> <<"s", "t", "a", "t", "u", "s">>,
      apt_get |-> <<"a", "p", "t", "-", "g", "e", "t">>,
      install |-> <<"i", "n", "s", "t", "a", "l", "l">>,
      remove |-> <<"r", "e", "m", "o", "v", "e">>,
      uninstall |-> <<"u", "n", "i", "n", "s", "t", "a", "l", "l">>,
      dash_y |-> <<"-", "y">>,
      dnf |-> <<"d", "n", "f">>,
      pacman |-> <<"p", "a", "c", "m", "a", "n">>,
      dash_S |-> <<"-", "S">>,
      dash_R |-> <<"-", "R">>,
      noconfirm |-> <<"-", "-", "n", "o", "c", "o", "n", "f", "i", "r", "m">>,
      zypper |-> <<"z", "y", "p", "p", "e", "r">>,
      brew |-> <<"b", "r", "e", "w">>,
      update |-> <<"u", "p", "d", "a", "t", "e">>,
      and_and |-> <<"&", "&">>,
      upgrade |-> <<"u", "p", "g", "r", "a", "d", "e">>,
      ps |-> <<"p", "s">>,
      top |-> <<"t", "o", "p">>,
      journalctl |-> <<"j", "o", "u", "r", "n", "a", "l", "c", "t", "l">>,
      perf |-> <<"p", "e", "r", "f">>,
      bpftrace |-> <<"b", "p", "f", "t", "r", "a", "c", "e">>,
      systemd_run |-> <<"s", "y", "s", "t", "e", "m", "d", "-", "r", "u", "n">>,
      scope |-> <<"-", "-", "s", "c", "o", "p", "e">>,
      dash_p |-> <<"-", "p">>,
      CPUWeight_eq |-> <<"C", "P", "U", "W", "e", "i", "g", "h", "t", "=">>,
      MemoryMax_eq |-> <<"M", "e", "m", "o", "r", "y", "M", "a", "x", "=">>,
      pid_eq |-> <<"-", "-", "p", "i", "d", "=">>,
      unit_eq |-> <<"-", "-", "u", "n", "i", "t", "=">>,
      dmidecode |-> <<"d", "m", "i", "d", "e", "c", "o", "d", "e">>,
      fwupdmgr |-> <<"f", "w", "u", "p", "d", "m", "g", "r">>,
      cat |-> <<"c", "a", "t">>,
      efivars |-> <<"/", "s", "y", "s", "/", "f", "i", "r", "m", "w", "a", "r", "e", "/", "e", "f", "i", "/", "e", "f", "i", "v", "a", "r", "s", "/">> ]

Digits == <<"0", "1", "2", "3", "4", "5", "6", "7", "8", "9">>

\* format!("{n}") of an unsigned integer
RECURSIVE ToDecimal(_)
ToDecimal(n) ==
    IF n < 10 THEN <<Digits[n + 1]>>
    ELSE Append(ToDecimal(n \div 10), Digits[(n % 10) + 1])

ActionErr(code, message) == Some([code |-> code, message |-> message])

ExecResult(ok, exit_code, stdout, stderr, error) ==
    [type |-> "exec", ok |-> ok, exit_code |-> exit_code,
     stdout |-> stdout, stdout_truncated |-> FALSE,
     stderr |-> stderr, stderr_truncated |-> FALSE, error |-> error]

ReadFileResult(ok, content_base64, truncated, error) ==
    [type |-> "read_file", ok |-> ok, content_base64 |-> content_base64,
     truncated |-> truncated, error |-> error]

WriteFileResult(ok, artifacts, error) ==
    [type |-> "write_file", ok |-> ok, artifacts |-> artifacts, error |-> error]

\* ServiceControlResult, InstallPackagesResult, ... : { ok, argv, error }
ArgvResult(type, ok, argv, error) ==
    [type |-> type, ok |-> ok, argv |-> argv, error |-> error]

PongResult == [type |-> "pong", ok |-> TRUE]

\* what a handler returns: the ActionResult and what it did to the host
Outcome(result, did) == [result |-> result, did |-> did]

Spawn(argv) == [op |-> "spawn", target |-> argv]
\* cmd.output() returned: the child has exited and was waited for
Wait(argv) == [op |-> "wait", target |-> argv]
OpenFile(path) == [op |-> "open", target |-> path]
WriteFile(path) == [op |-> "write", target |-> path]
Chmod(path) == [op |-> "chmod", target |-> path]

\* actions::exec::run; host is what the spawned program does:
\* "exit0", "exit1", "spawn_failed" or "timed_out".
\* exec.rs builds its errors from a bare message, without an ActionErrorCode.
\* On "timed_out" tokio::time::timeout drops the cmd.output() future: the
\* command was built without kill_on_drop, so the child is neither killed
\* nor waited for.
exec_run(exec, host) ==
    IF exec.argv = <<>>
    THEN Outcome(ExecResult(FALSE, None, "", "", ActionErr("uncoded", "missing argv[0]")), <<>>)
    ELSE CASE host = "spawn_failed" ->
                Outcome(ExecResult(FALSE, None, "", "", ActionErr("uncoded", "exec failed")), <<>>)
           [] host = "timed_out" ->
                Outcome(ExecResult(FALSE, None, "", "", ActionErr("uncoded", "exec timed out")),
                        <<Spawn(exec.argv)>>)
           [] host = "exit1" ->
                Outcome(ExecResult(FALSE, Some(1), "captured", "captured", None),
                        <<Spawn(exec.argv), Wait(exec.argv)>>)
           [] OTHER ->
                Outcome(ExecResult(TRUE, Some(0), "captured", "captured", None),
                        <<Spawn(exec.argv), Wait(exec.argv)>>)

\* actions::files::read; host "open_failed" makes File::open fail
files_read(read, host) ==
    IF host = "open_failed"
    THEN Outcome(ReadFileResult(FALSE, None, FALSE, ActionErr("read_failed", "read failed")),
                 <<>>)
    ELSE Outcome(ReadFileResult(TRUE, Some("base64"), FALSE, None), <<OpenFile(read.path)>>)

\* u32::from_str_radix(mode, 8) after trim and strip of "0o": an optional "+",
\* then at least one octal digit, the value below 2^32 (at most 11 significant
\* digits, the first of eleven at most 3)
RECURSIVE StripZeros(_)
StripZeros(ds) ==
    IF ds # <<>> /\ Head(ds) = "0" THEN StripZeros(Tail(ds)) ELSE ds

RECURSIVE OctalValue(_)
OctalValue(ds) ==
    IF ds = <<>> THEN 0
    ELSE 8 * OctalValue(SubSeq(ds, 1, Len(ds) - 1))
         + (CHOOSE d \in 0..7 : Digits[d + 1] = ds[Len(ds)])

\* faulty variant: the prefix "0o" is not stripped
parse_mode_KeepPrefix(mode) ==
    LET m == Trim(mode)
        ds == IF m # <<>> /\ Head(m) = "+" THEN Tail(m) ELSE m
        sig == StripZeros(ds)
    IN  IF ds = <<>> \/ (\E i \in 1..Len(ds) : ds[i] \notin OctalDigits) THEN None
        ELSE IF Len(sig) > 11 \/ (Len(sig) = 11 /\ sig[1] \notin {"1", "2", "3"}) THEN None
        ELSE IF Len(sig) = 11 /\ sig[1] # "1" THEN Some(2147483647)
        ELSE Some(OctalValue(sig))

\* Some(value); a value of 2^31 or more is written 2^31 - 1 here
parse_mode(mode) ==
    LET m == StripPrefix(Trim(mode), <<"0", "o">>)
        ds == IF m # <<>> /\ Head(m) = "+" THEN Tail(m) ELSE m
        sig == StripZeros(ds)
    IN  IF ds = <<>> \/ (\E i \in 1..Len(ds) : ds[i] \notin OctalDigits) THEN None
        ELSE IF Len(sig) > 11 \/ (Len(sig) = 11 /\ sig[1] \notin {"1", "2", "3"}) THEN None
        ELSE IF Len(sig) = 11 /\ sig[1] # "1" THEN Some(2147483647)
        ELSE Some(OctalValue(sig))

\* actions::files::write; host "write_failed" / "chmod_failed" make the
\* corresponding call fail
files_write(write, host) ==
    IF ~IsSome(parse_mode(write.mode))
    THEN Outcome(WriteFileResult(FALSE, <<>>,
                    ActionErr("invalid_mode_string", "mode must be an octal string like 0644")),
                 <<>>)
    ELSE IF host = "write_failed"
    THEN Outcome(WriteFileResult(FALSE, <<>>, ActionErr("write_failed", "write failed")), <<>>)
    ELSE IF host = "chmod_failed"
    THEN Outcome(WriteFileResult(FALSE, <<>>, ActionErr("write_failed", "chmod failed")),
                 <<WriteFile(write.path)>>)
    ELSE Outcome(WriteFileResult(TRUE, <<write.path>>, None),
                 <<WriteFile(write.path), Chmod(write.path)>>)

ExecDeniedResult ==
    ExecResult(FALSE, None, "", "", ActionErr("policy_denied", "exec denied by policy"))

ExecConfirmationResult ==
    ExecResult(FALSE, None, "", "", ActionErr("confirmation_required", "confirmation required"))

\* faulty variant: the preview is answered in execute mode as well
NotSupported_Previewed(type, message) ==
    Outcome(ArgvResult(type, TRUE, <<>>, None), <<>>)

NotSupported(type, message) ==
    Outcome(ArgvResult(type, FALSE, <<>>, ActionErr("policy_denied", message)), <<>>)

\* faulty variant: the confirmation gate is asked before the deny-list
execute_exec_ConfirmFirst(exec, confirmation_token, ctoken, host) ==
    IF exec_requires_confirmation(exec) /\ ~confirmation_is_valid(confirmation_token, ctoken)
    THEN Outcome(ExecConfirmationResult, <<>>)
    ELSE IF is_exec_denied(exec) THEN Outcome(ExecDeniedResult, <<>>)
    ELSE exec_run(exec, host)

\* server.rs execute_action, the Action::Exec arm
execute_exec(exec, confirmation_token, ctoken, host) ==
    IF is_exec_denied(exec) THEN Outcome(ExecDeniedResult, <<>>)
    ELSE IF exec_requires_confirmation(exec)
            /\ ~confirmation_is_valid(confirmation_token, ctoken)
    THEN Outcome(ExecConfirmationResult, <<>>)
    ELSE exec_run(exec, host)

\* server.rs execute_action
execute_action(action, confirmation_token, ctoken, host) ==
    CASE action.type = "exec" -> execute_exec(action, confirmation_token, ctoken, host)
      [] action.type = "read_file" ->
            IF path_requires_confirmation(action.path)
               /\ ~confirmation_is_valid(confirmation_token, ctoken)
            THEN Outcome(ReadFileResult(FALSE, None, FALSE,
                            ActionErr("confirmation_required", "confirmation required")), <<>>)
            ELSE files_read(action, host)
      [] action.type = "write_file" ->
            IF path_requires_confirmation(action.path)
               /\ ~confirmation_is_valid(confirmation_token, ctoken)
            THEN Outcome(WriteFileResult(FALSE, <<>>,
                            ActionErr("confirmation_required", "confirmation required")), <<>>)
            ELSE files_write(action, host)
      [] action.type = "service_control" ->
            NotSupported("service_control", "service_control is not supported in execute mode")
      [] action.type = "install_packages" ->
            NotSupported("install_packages", "install_packages is not supported in execute mode")
      [] action.type = "remove_packages" ->
            NotSupported("remove_packages", "remove_packages is not supported in execute mode")
      [] action.type = "update_system" ->
            NotSupported("update_system", "update_system is not supported in execute mode")
      [] action.type = "observe" ->
            NotSupported("observe", "observe is not supported in execute mode")
      [] action.type = "cgroup_apply" ->
            NotSupported("cgroup_apply", "cgroup_apply is not supported in execute mode")
      [] action.type = "firmware_op" ->
            NotSupported("firmware_op", "firmware_op is not supported in execute mode")
      [] OTHER -> Outcome(PongResult, <<>>)

Verb(v) ==
    CASE v = "start" -> PlanWords.start [] v = "stop" -> PlanWords.stop [] v = "restart" -> PlanWords.restart
      [] v = "enable" -> PlanWords.enable [] v = "disable" -> PlanWords.disable [] OTHER -> PlanWords.status

InstallPrefix(manager) ==
    CASE manager = "apt" -> <<PlanWords.apt_get, PlanWords.install, PlanWords.dash_y>>
      [] manager = "dnf" -> <<PlanWords.dnf, PlanWords.install, PlanWords.dash_y>>
      [] manager = "pacman" -> <<PlanWords.pacman, PlanWords.dash_S, PlanWords.noconfirm>>
      [] manager = "zypper" -> <<PlanWords.zypper, PlanWords.install, PlanWords.dash_y>>
      [] OTHER -> <<PlanWords.brew, PlanWords.install>>

RemovePrefix(manager) ==
    CASE manager = "apt" -> <<PlanWords.apt_get, PlanWords.remove, PlanWords.dash_y>>
      [] manager = "dnf" -> <<PlanWords.dnf, PlanWords.remove, PlanWords.dash_y>>
      [] manager = "pacman" -> <<PlanWords.pacman, PlanWords.dash_R, PlanWords.noconfirm>>
      [] manager = "zypper" -> <<PlanWords.zypper, PlanWords.remove, PlanWords.dash_y>>
      [] OTHER -> <<PlanWords.brew, PlanWords.uninstall>>

ToolName(tool) ==
    CASE tool = "ps" -> PlanWords.ps [] tool = "top" -> PlanWords.top [] tool = "journalctl" -> PlanWords.journalctl
      [] tool = "perf" -> PlanWords.perf [] OTHER -> PlanWords.bpftrace

\* faulty variant: the MemoryMax pair is put before the CPUWeight pair
plan_cgroup_apply_MemoryFirst(cg) ==
    LET argv == <<PlanWords.systemd_run, PlanWords.scope>>
                \o (IF IsSome(cg.mem_max_bytes)
                    THEN <<PlanWords.dash_p, PlanWords.MemoryMax_eq \o ToDecimal(Unwrap(cg.mem_max_bytes))>>
                    ELSE <<>>)
                \o (IF IsSome(cg.cpu_weight)
                    THEN <<PlanWords.dash_p, PlanWords.CPUWeight_eq \o ToDecimal(Unwrap(cg.cpu_weight))>>
                    ELSE <<>>)
    IN  IF IsSome(cg.pid)
        THEN ArgvResult("cgroup_apply", TRUE,
                        Append(argv, PlanWords.pid_eq \o ToDecimal(Unwrap(cg.pid))), None)
        ELSE IF IsSome(cg.unit)
        THEN ArgvResult("cgroup_apply", TRUE, Append(argv, PlanWords.unit_eq \o Unwrap(cg.unit)), None)
        ELSE ArgvResult("cgroup_apply", FALSE, <<>>,
                        ActionErr("policy_denied", "cgroup_apply target is invalid"))

plan_cgroup_apply(cg) ==
    LET argv == <<PlanWords.systemd_run, PlanWords.scope>>
                \o (IF IsSome(cg.cpu_weight)
                    THEN <<PlanWords.dash_p, PlanWords.CPUWeight_eq \o ToDecimal(Unwrap(cg.cpu_weight))>>
                    ELSE <<>>)
                \o (IF IsSome(cg.mem_max_bytes)
                    THEN <<PlanWords.dash_p, PlanWords.MemoryMax_eq \o ToDecimal(Unwrap(cg.mem_max_bytes))>>
                    ELSE <<>>)
    IN  IF IsSome(cg.pid)
        THEN ArgvResult("cgroup_apply", TRUE,
                        Append(argv, PlanWords.pid_eq \o ToDecimal(Unwrap(cg.pid))), None)
        ELSE IF IsSome(cg.unit)
        THEN ArgvResult("cgroup_apply", TRUE, Append(argv, PlanWords.unit_eq \o Unwrap(cg.unit)), None)
        ELSE ArgvResult("cgroup_apply", FALSE, <<>>,
                        ActionErr("policy_denied", "cgroup_apply target is invalid"))

plan_firmware_op(fw) ==
    CASE fw.op = "inventory" -> ArgvResult("firmware_op", TRUE, <<PlanWords.dmidecode>>, None)
      [] fw.op = "fwupd_update" -> ArgvResult("firmware_op", TRUE, <<PlanWords.fwupdmgr, PlanWords.update>>, None)
      [] OTHER ->
            LET name == IF IsSome(fw.uefi_var_name) THEN Unwrap(fw.uefi_var_name) ELSE <<>>
            IN  IF Trim(name) = <<>>
                THEN ArgvResult("firmware_op", FALSE, <<>>,
                                ActionErr("policy_denied", "firmware_op target is invalid"))
                ELSE ArgvResult("firmware_op", TRUE, <<PlanWords.cat, PlanWords.efivars \o name>>, None)

\* server.rs plan_action: no arm touches the host
plan_action(action, confirmation_token, ctoken) ==
    CASE action.type = "exec" ->
            IF is_exec_denied(action) THEN ExecDeniedResult
            ELSE IF exec_requires_confirmation(action)
                    /\ ~confirmation_is_valid(confirmation_token, ctoken)
            THEN ExecConfirmationResult
            ELSE ExecResult(TRUE, None, "", "", None)
      [] action.type = "read_file" ->
            IF path_requires_confirmation(action.path)
               /\ ~confirmation_is_valid(confirmation_token, ctoken)
            THEN ReadFileResult(FALSE, None, FALSE,
                                ActionErr("confirmation_required", "confirmation required"))
            ELSE ReadFileResult(TRUE, None, FALSE, None)
      [] action.type = "write_file" ->
            IF path_requires_confirmation(action.path)
               /\ ~confirmation_is_valid(confirmation_token, ctoken)
            THEN WriteFileResult(FALSE, <<>>,
                                 ActionErr("confirmation_required", "confirmation required"))
            ELSE WriteFileResult(TRUE, <<>>, None)
      [] action.type = "service_control" ->
            ArgvResult("service_control", TRUE,
                       <<PlanWords.systemctl, Verb(action.action), action.unit>>, None)
      [] action.type = "install_packages" ->
            IF action.manager = "other"
            THEN ArgvResult("install_packages", FALSE, <<>>,
                            ActionErr("policy_denied", "install_packages manager not supported"))
            ELSE ArgvResult("install_packages", TRUE,
                            InstallPrefix(action.manager) \o action.packages, None)
      [] action.type = "remove_packages" ->
            IF action.manager = "other"
            THEN ArgvResult("remove_packages", FALSE, <<>>,
                            ActionErr("policy_denied", "remove_packages manager not supported"))
            ELSE ArgvResult("remove_packages", TRUE,
                            RemovePrefix(action.manager) \o action.packages, None)
      [] action.type = "update_system" ->
            IF action.manager = "apt"
            THEN ArgvResult("update_system", TRUE,
                            <<PlanWords.apt_get, PlanWords.update, PlanWords.and_and, PlanWords.apt_get, PlanWords.upgrade, PlanWords.dash_y>>,
                            None)
            ELSE ArgvResult("update_system", FALSE, <<>>,
                            ActionErr("policy_denied", "update_system manager not supported"))
      [] action.type = "observe" ->
            IF action.tool = "other"
            THEN ArgvResult("observe", FALSE, <<>>,
                            ActionErr("policy_denied", "observe tool not supported"))
            ELSE ArgvResult("observe", TRUE, <<ToolName(action.tool)>> \o action.args, None)
      [] action.type = "cgroup_apply" -> plan_cgroup_apply(action)
      [] action.type = "firmware_op" -> plan_firmware_op(action)
      [] OTHER -> PongResult

----------------------------------------------------------------------------
(* llm-osd: audit.rs *)

S_redacted == <<"[", "r", "e", "d", "a", "c", "t", "e", "d", "]">>

RECURSIVE RedactEnv(_)
RedactEnv(entries) ==
    IF entries = <<>> THEN <<>>
    ELSE << <<Head(entries)[1], S_redacted>> >> \o RedactEnv(Tail(entries))

\* faulty variant: the content of a write_file is the only thing replaced
redact_action_ContentOnly(a) ==
    IF a.type = "write_file" THEN [a EXCEPT !.content = S_redacted] ELSE a

redact_action(a) ==
    CASE a.type = "write_file" -> [a EXCEPT !.content = S_redacted]
      [] a.type = "exec" ->
            IF IsSome(a.env) THEN [a EXCEPT !.env = Some(RedactEnv(Unwrap(a.env)))] ELSE a
      [] OTHER -> a

redact_plan(p) ==
    [p EXCEPT
        !.confirmation = IF IsSome(p.confirmation)
                         THEN Some([token |-> S_redacted])
                         ELSE None,
        !.actions = [i \in 1..Len(p.actions) |-> redact_action(p.actions[i])]]

redact_action_result(r) ==
    CASE r.type = "exec" -> [r EXCEPT !.stdout = "[redacted]", !.stderr = "[redacted]"]
      [] r.type = "read_file" -> [r EXCEPT !.content_base64 = Some("[redacted]")]
      [] OTHER -> r

redact_result(res) ==
    [res EXCEPT !.results = [i \in 1..Len(res.results) |-> redact_action_result(res.results[i])]]

\* the AuditRecord of append_record (ts_unix_ms and peer are not modelled)
AuditRecord(p, res) ==
    [request_id |-> p.request_id, session_id |-> p.session_id,
     plan |-> redact_plan(p), result |-> redact_result(res)]

----------------------------------------------------------------------------
(* llm-osd: server.rs handle_client *)

\* the fields of the structs behind the variants of Action (all of them
\* #[serde(deny_unknown_fields)]); Action itself is tagged by "type"
ActionFields ==
    [ exec |-> {"type", "argv", "cwd", "env", "timeout_sec", "as_root", "reason", "danger",
                "recovery"},
      read_file |-> {"type", "path", "max_bytes", "reason", "danger", "recovery"},
      write_file |-> {"type", "path", "content", "mode", "reason", "danger", "recovery"},
      service_control |-> {"type", "action", "unit", "reason", "danger", "recovery"},
      install_packages |-> {"type", "manager", "packages", "reason", "danger", "recovery"},
      remove_packages |-> {"type", "manager", "packages", "reason", "danger", "recovery"},
      update_system |-> {"type", "manager", "reason", "danger", "recovery"},
      observe |-> {"type", "tool", "args", "reason", "danger", "recovery"},
      cgroup_apply |-> {"type", "pid", "unit", "cpu_weight", "mem_max_bytes", "reason",
                        "danger", "recovery"} ]

\* Deserialize for Action, derived with #[serde(tag = "type")]: a struct
\* variant is read by its struct, which denies unknown fields; the unit
\* variant Ping reads whatever else the object holds as IgnoredAny
deserialize_action(obj) ==
    IF obj.type = "ping" THEN Some([type |-> "ping"])
    ELSE IF obj.type \in DOMAIN ActionFields /\ DOMAIN obj \subseteq ActionFields[obj.type]
    THEN Some(obj)
    ELSE None

\* serde_json::from_str::<ActionPlan> on a JSON object
from_str(obj) ==
    IF ~(DOMAIN obj \subseteq
           {"request_id", "session_id", "version", "mode", "actions", "confirmation"})
    THEN None
    ELSE IF IsSome(obj.confirmation) /\ DOMAIN Unwrap(obj.confirmation) # {"token"}
    THEN None
    ELSE IF \E i \in 1..Len(obj.actions) : ~IsSome(deserialize_action(obj.actions[i]))
    THEN None
    ELSE Some([obj EXCEPT
                 !.actions = [i \in 1..Len(obj.actions) |->
                                Unwrap(deserialize_action(obj.actions[i]))]])

\* parse_action_plan(String::from_utf8_lossy(&input)).  The peer's stream is a
\* text of doc.len bytes followed by whitespace; doc.text is Some(object) when
\* that text is a JSON object and None when it is not JSON.  serde_json
\* accepts trailing whitespace and rejects a document that is cut short.
parse_action_plan(inputLen, doc) ==
    IF IsSome(doc.text) /\ inputLen >= doc.len THEN from_str(Unwrap(doc.text)) ELSE None

\* faulty variant: a request that fills the buffer exactly is taken for oversize
ReadStep_OffByOne(inputLen, wasExceeded, n) ==
    IF wasExceeded THEN [input |-> inputLen, exceeded |-> TRUE]
    ELSE IF inputLen + n >= MAX_REQUEST_BYTES THEN [input |-> inputLen, exceeded |-> TRUE]
    ELSE [input |-> inputLen + n, exceeded |-> FALSE]

\* the body of the read loop for a read that returned n > 0 bytes
ReadStep(inputLen, wasExceeded, n) ==
    IF wasExceeded THEN [input |-> inputLen, exceeded |-> TRUE]
    ELSE IF inputLen + n > MAX_REQUEST_BYTES THEN [input |-> inputLen, exceeded |-> TRUE]
    ELSE [input |-> inputLen + n, exceeded |-> FALSE]

\* faulty variant: an idle read is answered "read timed out" whatever was received
ReadOutcome_IdleTimesOut(isExceeded, isIdle, inputLen, doc) ==
    IF isExceeded THEN "request_too_large"
    ELSE IF isIdle THEN "read_timed_out"
    ELSE IF ~IsSome(parse_action_plan(inputLen, doc)) THEN "parse_failed"
    ELSE IF IsSome(validate_action_plan(Unwrap(parse_action_plan(inputLen, doc))))
         THEN "validation_failed"
    ELSE "dispatch"

\* which branch handle_client takes once the read loop has ended
ReadOutcome(isExceeded, isIdle, inputLen, doc) ==
    IF isExceeded THEN "request_too_large"
    ELSE IF isIdle /\ inputLen = 0 THEN "read_timed_out"
    ELSE IF ~IsSome(parse_action_plan(inputLen, doc)) THEN "parse_failed"
    ELSE IF IsSome(validate_action_plan(Unwrap(parse_action_plan(inputLen, doc))))
         THEN "validation_failed"
    ELSE "dispatch"

\* the ActionPlanResult of write_request_error
RequestErrorResponse(request_id, code, message) ==
    [request_id |-> request_id, executed |-> FALSE, results |-> <<>>,
     error |-> Some([code |-> code, message |-> message])]

\* faulty variant: the mode of the plan is not consulted
dispatch_one_AlwaysExecute(mode, action, confirmation_token, ctoken, host) ==
    execute_action(action, confirmation_token, ctoken, host)

\* the match on plan.mode in the dispatch loop
dispatch_one(mode, action, confirmation_token, ctoken, host) ==
    IF mode = "execute"
    THEN execute_action(action, confirmation_token, ctoken, host)
    ELSE Outcome(plan_action(action, confirmation_token, ctoken), <<>>)

\* plan.confirmation.as_ref().map(|c| c.token.as_str())
ConfirmationToken(p) ==
    IF IsSome(p.confirmation) THEN Some(Unwrap(p.confirmation).token) ELSE None

\* what the host can answer to the handler of an action
HostOutcomes(mode, a) ==
    IF mode # "execute" THEN {"ok"}
    ELSE CASE a.type = "exec" -> {"exit0", "exit1", "spawn_failed", "timed_out"}
           [] a.type = "read_file" -> {"ok", "open_failed"}
           [] a.type = "write_file" -> {"ok", "write_failed", "chmod_failed"}
           [] OTHER -> {"ok"}

----------------------------------------------------------------------------
(* Inputs: the daemon's configuration and the requests peers send *)

MaxPlanActions == 2
MaxShortSends == 2
SmallDocLen == 80

T_default == <<"i", "-", "u", "n", "d", "e", "r", "s", "t", "a", "n", "d">>
T_custom == <<"s", "3", "c", "r", "e", "t">>
T_wrong == <<"n", "o", "p", "e">>
T_blank == <<" ">>
T_padded_default == <<" ">> \o T_default \o <<"\n">>
T_padded_custom == <<"\t">> \o T_custom \o <<" ">>

DaemonTokens == {T_default, T_custom}

S_usr_bin_true == <<"/", "u", "s", "r", "/", "b", "i", "n", "/", "t", "r", "u", "e">>
S_etc_passwd == <<"/", "e", "t", "c", "/", "p", "a", "s", "s", "w", "d">>
S_tmp == <<"/", "t", "m", "p">>
S_tmp_a == <<"/", "t", "m", "p", "/", "a">>
S_tmp_a_up_b == <<"/", "t", "m", "p", "/", "a", "/", ".", ".", "/", "b">>
S_rel == <<"n", "o", "t", "e", "s", "/", "a", ".", "t", "x", "t">>
S_rel_up == <<".", ".", "/", "a">>
S_rel_dots == <<"a", "/", ".", ".", "b", "/", "c", ".", ".">>
S_rel_dot == <<".", "/", "a">>
S_tmpfile == <<"/", "t", "m", "p", "f", "i", "l", "e">>
S_mode_644 == <<"0", "6", "4", "4">>
S_reason == <<"t", "e", "s", "t">>
S_r1 == <<"r", "1">>
S_version == <<"0", ".", "1">>
S_unit == <<"n", "g", "i", "n", "x", ".", "s", "e", "r", "v", "i", "c", "e">>

ExecOf(argv) ==
    [type |-> "exec", argv |-> argv, cwd |-> None, env |-> None, timeout_sec |-> 5,
     as_root |-> FALSE, reason |-> S_reason, danger |-> None, recovery |-> None]

ReadFileOf(path) ==
    [type |-> "read_file", path |-> path, max_bytes |-> 16, reason |-> S_reason,
     danger |-> None, recovery |-> None]

WriteFileOf(path) ==
    [type |-> "write_file", path |-> path, content |-> <<"h", "i">>, mode |-> S_mode_644,
     reason |-> S_reason, danger |-> None, recovery |-> None]

ServiceControlOf(verb) ==
    [type |-> "service_control", action |-> verb, unit |-> S_unit, reason |-> S_reason,
     danger |-> None, recovery |-> None]

Ping == [type |-> "ping"]

\* the actions the requests of the server specification are built from
Actions ==
    { ExecOf(<<S_bin_echo, <<"h", "i">> >>),
      [ExecOf(<<S_usr_bin_true>>) EXCEPT !.env = Some(<< << <<"K">>, <<"v", "1">> >> >>)],
      ExecOf(<<S_sbin \o S_reboot>>),
      ExecOf(<<S_bin \o S_reboot>>),
      [ExecOf(<<S_echo>>) EXCEPT !.as_root = TRUE],
      ReadFileOf(S_etc_passwd),
      WriteFileOf(S_tmp_a),
      WriteFileOf(S_tmp_a_up_b),
      ServiceControlOf("restart"),
      Ping }

Modes == {"execute", "plan_only"}

Confirmations ==
    { None, Some([token |-> T_default]), Some([token |-> T_padded_custom]),
      Some([token |-> T_wrong]), Some([token |-> T_blank]) }

SeqsUpTo(S, n) == UNION {[1..k -> S] : k \in 0..n}

MkPlan(request_id, mode, actions, confirmation) ==
    [request_id |-> request_id, session_id |-> None, version |-> S_version,
     mode |-> mode, actions |-> actions, confirmation |-> confirmation]

\* documents that hold a field the schema does not define: at the root, in
\* confirmation, in a service_control action, in a ping action
UnknownFieldPlans ==
    { MkPlan(S_r1, "execute", <<Ping>>, None) @@ [unexpected |-> "x"],
      MkPlan(S_r1, "execute", <<Ping>>, Some([token |-> T_default, unexpected |-> "x"])),
      MkPlan(S_r1, "execute", <<ServiceControlOf("restart") @@ [unexpected |-> "x"]>>, None),
      MkPlan(S_r1, "execute", <<[type |-> "ping", extra |-> 1]>>, None),
      MkPlan(S_r1, "plan_only", <<Ping, [type |-> "ping", extra |-> 1]>>, None) }

\* the actions plans of more than two actions are made of
LongPlanActions ==
    { ExecOf(<<S_bin_echo, <<"h", "i">> >>), ExecOf(<<S_sbin \o S_reboot>>),
      WriteFileOf(S_tmp_a_up_b), Ping }

\* every sequence of up to two actions, and the longer ones over
\* LongPlanActions
ActionSeqs ==
    SeqsUpTo(Actions, Min(MaxPlanActions, 2))
    \cup UNION { [1..k -> LongPlanActions] : k \in 3..MaxPlanActions }

Plans ==
    { MkPlan(S_r1, m, as, c) : m \in Modes, as \in ActionSeqs, c \in Confirmations }
    \cup { MkPlan(<<" ">>, "execute", <<Ping>>, None) }
    \cup UnknownFieldPlans
    \cup { MkPlan(S_r1, "execute",
                  <<[WriteFileOf(S_tmp_a) EXCEPT !.mode = <<"a", "b", "c">>]>>, None) }

\* the plans that are also sent padded up to and beyond the request ceiling
BigPlans ==
    { MkPlan(S_r1, "execute", <<Ping>>, None),
      MkPlan(S_r1, "execute", <<ExecOf(<<S_bin_echo, <<"h", "i">> >>)>>, None),
      MkPlan(<<" ">>, "execute", <<Ping>>, None) }

Request(text, len, total, trickle, endless) ==
    [text |-> text, len |-> len, total |-> total, trickle |-> trickle, endless |-> endless]

BigTotals ==
    { MAX_REQUEST_BYTES - 1, MAX_REQUEST_BYTES, MAX_REQUEST_BYTES + 1, 300 * 1024 }

Requests ==
    \* a plan, written in one piece
    { Request(Some(p), SmallDocLen, SmallDocLen, FALSE, FALSE) : p \in Plans }
    \* a plan, possibly written byte by byte, padded, or followed by an endless stream
    \cup { r \in { Request(Some(p), l, t, TRUE, e) :
                     p \in BigPlans, l \in {SmallDocLen, MAX_REQUEST_BYTES},
                     t \in BigTotals \cup {SmallDocLen}, e \in BOOLEAN } :
             r.total >= r.len }
    \* bytes that are not JSON, the empty request included
    \cup { Request(None, t, t, TRUE, e) : t \in BigTotals \cup {0, 1}, e \in BOOLEAN }

\* received stops counting here (an endless stream is not counted to the end)
RecvCap == 2 * MAX_REQUEST_BYTES

----------------------------------------------------------------------------
(* The state machine *)

NoPolicyRun == [mode |-> "execute", action |-> Ping, token |-> None]

NoValidateRun == MkPlan(S_r1, "execute", <<Ping>>, None)

ConnInit ==
    /\ pending = 0
    /\ timer = 0
    /\ input = 0
    /\ exceeded = FALSE
    /\ idle = FALSE
    /\ received = 0
    /\ plan = None
    /\ idx = 0
    /\ results = <<>>
    /\ effects = <<>>
    /\ response = None
    /\ wire = <<>>
    /\ wshut = FALSE
    /\ auditLog = <<>>
    /\ ret = "none"

Init ==
    /\ confirm_token \in DaemonTokens
    /\ pc = "accept"
    /\ client = [doc |-> [text |-> None, len |-> 0], remaining |-> 0, shorts |-> 0,
                 trickle |-> FALSE, endless |-> FALSE, closed |-> FALSE]
    /\ ConnInit
    /\ polIn = NoPolicyRun
    /\ polOut = None
    /\ valIn = NoValidateRun
    /\ valOut = None
    /\ rd = None /\ cli = None /\ aud = None

\* run: listener.accept() and tokio::spawn(handle_client), for a peer that
\* is about to send one of reqs
AcceptFrom(reqs) ==
    /\ pc = "accept"
    /\ \E req \in reqs :
          client' = [doc |-> [text |-> req.text, len |-> req.len], remaining |-> req.total,
                     shorts |-> 0, trickle |-> req.trickle, endless |-> req.endless,
                     closed |-> FALSE]
    /\ pc' = "read"
    /\ pending' = 0 /\ timer' = 0 /\ input' = 0 /\ exceeded' = FALSE /\ idle' = FALSE
    /\ received' = 0 /\ plan' = None /\ idx' = 0 /\ results' = <<>> /\ effects' = <<>>
    /\ response' = None /\ wire' = <<>> /\ wshut' = FALSE /\ auditLog' = <<>>
    /\ ret' = "none"
    /\ UNCHANGED <<confirm_token, polIn, polOut, valIn, valOut, rd, cli, aud>>

Accept == AcceptFrom(Requests)

serverVars == <<confirm_token, pc, input, exceeded, idle, received, plan, idx, results,
                effects, response, wire, wshut, auditLog, ret, polIn, polOut, valIn, valOut, rd, cli, aud>>

\* the peer writes all it has left
ClientSend ==
    /\ pc = "read" /\ ~client.closed /\ client.remaining > 0
    /\ pending' = pending + client.remaining
    /\ client' = [client EXCEPT !.remaining = 0]
    /\ timer' = 0
    /\ UNCHANGED serverVars

\* the peer writes a single byte, once the server has read what was written
ClientTrickle ==
    /\ pc = "read" /\ ~client.closed /\ client.remaining > 0 /\ pending = 0
    /\ client.trickle /\ client.shorts < MaxShortSends
    /\ pending' = pending + 1
    /\ client' = [client EXCEPT !.remaining = @ - 1, !.shorts = @ + 1]
    /\ timer' = 0
    /\ UNCHANGED serverVars

\* a peer that never stops: once its request is out and read, it writes more
ClientFlood ==
    /\ pc = "read" /\ ~client.closed /\ client.endless
    /\ client.remaining = 0 /\ pending = 0
    /\ pending' = BUF_SIZE
    /\ timer' = 0
    /\ UNCHANGED <<client, serverVars>>

\* the peer shuts its write side down
ClientClose ==
    /\ pc = "read" /\ ~client.closed /\ client.remaining = 0
    /\ client' = [client EXCEPT !.closed = TRUE]
    /\ UNCHANGED <<pending, timer, serverVars>>

\* time passes while stream.read waits for data
Tick ==
    /\ pc = "read" /\ pending = 0 /\ ~client.closed
    /\ timer < READ_IDLE_TIMEOUT
    /\ timer' = timer + 1
    /\ UNCHANGED <<client, pending, serverVars>>

\* stream.read returned Ok(n), n > 0
ReadChunk ==
    /\ pc = "read" /\ pending > 0
    /\ LET n == Min(BUF_SIZE, pending)
           step == ReadStep(input, exceeded, n)
       IN  /\ input' = step.input
           /\ exceeded' = step.exceeded
           /\ pending' = pending - n
           /\ received' = Min(received + n, RecvCap)
    /\ timer' = 0
    /\ UNCHANGED <<confirm_token, pc, client, idle, plan, idx, results, effects, response,
                   wire, wshut, auditLog, ret, polIn, polOut, valIn, valOut, rd, cli, aud>>

\* stream.read returned Ok(0)
ReadEof ==
    /\ pc = "read" /\ pending = 0 /\ client.closed
    /\ pc' = "decide"
    /\ timer' = 0
    /\ UNCHANGED <<confirm_token, client, pending, input, exceeded, idle, received,
                   plan, idx, results, effects, response, wire, wshut, auditLog, ret,
                   polIn, polOut, valIn, valOut, rd, cli, aud>>

\* tokio::time::timeout elapsed
ReadIdle ==
    /\ pc = "read" /\ pending = 0 /\ ~client.closed
    /\ timer = READ_IDLE_TIMEOUT
    /\ idle' = TRUE
    /\ pc' = "decide"
    /\ timer' = 0
    /\ UNCHANGED <<confirm_token, client, pending, input, exceeded, received,
                   plan, idx, results, effects, response, wire, wshut, auditLog, ret,
                   polIn, polOut, valIn, valOut, rd, cli, aud>>

\* stream.read returned Err: `res?` leaves handle_client at once
ReadError ==
    /\ pc = "read"
    /\ ret' = "err"
    /\ pc' = "done"
    /\ timer' = 0
    /\ UNCHANGED <<confirm_token, client, pending, input, exceeded, idle, received,
                   plan, idx, results, effects, response, wire, wshut, auditLog,
                   polIn, polOut, valIn, valOut, rd, cli, aud>>

\* what the socket answers to write_all and to shutdown
SocketOutcomes == {"written", "write_failed", "shutdown_failed"}

\* write_request_error, its result dropped by `let _ =`, then return Ok(())
WriteRequestError(request_id, code, message) ==
    /\ response' = Some(RequestErrorResponse(request_id, code, message))
    /\ \E sock \in SocketOutcomes :
          /\ wire' = IF sock = "write_failed" THEN wire
                     ELSE Append(wire, RequestErrorResponse(request_id, code, message))
          /\ wshut' = (sock = "written")
    /\ ret' = "ok"
    /\ pc' = "done"
    /\ UNCHANGED <<confirm_token, client, pending, timer, input, exceeded, idle, received,
                   plan, idx, results, effects, auditLog, polIn, polOut, valIn, valOut, rd, cli, aud>>

RespondTooLarge ==
    /\ pc = "decide"
    /\ ReadOutcome(exceeded, idle, input, client.doc) = "request_too_large"
    /\ WriteRequestError(S_unknown, "request_too_large", "request exceeds max bytes")

RespondTimedOut ==
    /\ pc = "decide"
    /\ ReadOutcome(exceeded, idle, input, client.doc) = "read_timed_out"
    /\ WriteRequestError(S_unknown, "parse_failed", "read timed out")

RespondParseFailed ==
    /\ pc = "decide"
    /\ ReadOutcome(exceeded, idle, input, client.doc) = "parse_failed"
    /\ WriteRequestError(S_unknown, "parse_failed", "parse failed")

\* faulty variant: the answer to a plan that fails validation is filed
\* under "unknown"
RespondValidationFailed_UnknownId ==
    /\ pc = "decide"
    /\ ReadOutcome(exceeded, idle, input, client.doc) = "validation_failed"
    /\ LET p == Unwrap(parse_action_plan(input, client.doc))
       IN  WriteRequestError(S_unknown, "validation_failed",
                             <<"validation failed: ", Unwrap(validate_action_plan(p))>>)

RespondValidationFailed ==
    /\ pc = "decide"
    /\ ReadOutcome(exceeded, idle, input, client.doc) = "validation_failed"
    /\ LET p == Unwrap(parse_action_plan(input, client.doc))
       IN  WriteRequestError(p.request_id, "validation_failed",
                             <<"validation failed: ", Unwrap(validate_action_plan(p))>>)

\* the plan parsed and passed validation: the dispatch loop starts
BeginDispatch ==
    /\ pc = "decide"
    /\ ReadOutcome(exceeded, idle, input, client.doc) = "dispatch"
    /\ plan' = parse_action_plan(input, client.doc)
    /\ pc' = "dispatch"
    /\ UNCHANGED <<confirm_token, client, pending, timer, input, exceeded, idle, received,
                   idx, results, effects, response, wire, wshut, auditLog, ret,
                   polIn, polOut, valIn, valOut, rd, cli, aud>>

\* faulty variant: the loop is left at the first result that is not ok
DispatchAction_BreakOnFailure ==
    /\ pc = "dispatch" /\ idx < Len(Unwrap(plan).actions)
    /\ LET p == Unwrap(plan)
           action == p.actions[idx + 1]
       IN  \E host \in HostOutcomes(p.mode, action) :
              LET out == dispatch_one(p.mode, action, ConfirmationToken(p), confirm_token, host)
              IN  /\ results' = Append(results, out.result)
                  /\ effects' = effects \o out.did
                  /\ idx' = IF out.result.ok THEN idx + 1 ELSE Len(p.actions)
    /\ UNCHANGED <<confirm_token, pc, client, pending, timer, input, exceeded, idle,
                   received, plan, response, wire, wshut, auditLog, ret, polIn, polOut, valIn, valOut, rd, cli, aud>>

\* one turn of `for action in &plan.actions`
DispatchAction ==
    /\ pc = "dispatch" /\ idx < Len(Unwrap(plan).actions)
    /\ LET p == Unwrap(plan)
           action == p.actions[idx + 1]
       IN  \E host \in HostOutcomes(p.mode, action) :
              LET out == dispatch_one(p.mode, action, ConfirmationToken(p), confirm_token, host)
              IN  /\ results' = Append(results, out.result)
                  /\ effects' = effects \o out.did
    /\ idx' = idx + 1
    /\ UNCHANGED <<confirm_token, pc, client, pending, timer, input, exceeded, idle,
                   received, plan, response, wire, wshut, auditLog, ret, polIn, polOut, valIn, valOut, rd, cli, aud>>

\* faulty variant: executed is set whatever the mode
PlanResponse_AlwaysExecuted(p, rs) ==
    [request_id |-> p.request_id, executed |-> TRUE, results |-> rs, error |-> None]

PlanResponse(p, rs) ==
    [request_id |-> p.request_id, executed |-> (p.mode = "execute"), results |-> rs,
     error |-> None]

\* faulty variant: the audit append is attempted also when write_all or
\* shutdown failed
WriteResponse_AuditAlways ==
    /\ pc = "dispatch" /\ idx = Len(Unwrap(plan).actions)
    /\ response' = Some(PlanResponse(Unwrap(plan), results))
    /\ \E sock \in SocketOutcomes :
          /\ wire' = IF sock = "write_failed" THEN wire
                     ELSE Append(wire, PlanResponse(Unwrap(plan), results))
          /\ wshut' = (sock = "written")
          /\ pc' = "audit" /\ ret' = ret
    /\ UNCHANGED <<confirm_token, client, pending, timer, input, exceeded, idle, received,
                   plan, idx, results, effects, auditLog, polIn, polOut, valIn, valOut, rd, cli, aud>>

\* write_all(&response_json)?, then shutdown()?
WriteResponse ==
    /\ pc = "dispatch" /\ idx = Len(Unwrap(plan).actions)
    /\ response' = Some(PlanResponse(Unwrap(plan), results))
    /\ \E sock \in SocketOutcomes :
          /\ wire' = IF sock = "write_failed" THEN wire
                     ELSE Append(wire, PlanResponse(Unwrap(plan), results))
          /\ wshut' = (sock = "written")
          /\ IF sock = "written"
             THEN pc' = "audit" /\ ret' = ret
             ELSE pc' = "done" /\ ret' = "err"
    /\ UNCHANGED <<confirm_token, client, pending, timer, input, exceeded, idle, received,
                   plan, idx, results, effects, auditLog, polIn, polOut, valIn, valOut, rd, cli, aud>>

\* audit::append_record(...)?: the line is appended, or opening / writing fails
AuditAppend ==
    /\ pc = "audit"
    /\ \E appended \in BOOLEAN :
          IF appended
          THEN /\ auditLog' = Append(auditLog, AuditRecord(Unwrap(plan), Unwrap(response)))
               /\ ret' = "ok"
          ELSE /\ UNCHANGED auditLog
               /\ ret' = "err"
    /\ pc' = "done"
    /\ UNCHANGED <<confirm_token, client, pending, timer, input, exceeded, idle, received,
                   plan, idx, results, effects, response, wire, wshut, polIn, polOut, valIn, valOut, rd, cli, aud>>

\* the task of the connection has ended and the stream is dropped; the
\* listener goes on with the next connection (auditLog: the lines appended
\* for the connection at hand)
Finish ==
    /\ pc = "done"
    /\ pc' = "accept"
    /\ client' = [doc |-> [text |-> None, len |-> 0], remaining |-> 0, shorts |-> 0,
                  trickle |-> FALSE, endless |-> FALSE, closed |-> FALSE]
    /\ pending' = 0 /\ timer' = 0 /\ input' = 0 /\ exceeded' = FALSE /\ idle' = FALSE
    /\ received' = 0 /\ plan' = None /\ idx' = 0 /\ results' = <<>> /\ effects' = <<>>
    /\ response' = None /\ wire' = <<>> /\ wshut' = FALSE /\ auditLog' = <<>>
    /\ ret' = "none"
    /\ UNCHANGED <<confirm_token, polIn, polOut, valIn, valOut, rd, cli, aud>>

Next ==
    \/ Accept
    \/ ClientSend
    \/ ClientTrickle
    \/ ClientFlood
    \/ ClientClose
    \/ Tick
    \/ ReadChunk
    \/ ReadEof
    \/ ReadIdle
    \/ ReadError
    \/ RespondTooLarge
    \/ RespondTimedOut
    \/ RespondParseFailed
    \/ RespondValidationFailed
    \/ BeginDispatch
    \/ DispatchAction
    \/ WriteResponse
    \/ AuditAppend
    \/ Finish

Spec == Init /\ [][Next]_vars

----------------------------------------------------------------------------
(* The server under fair scheduling, for peers that stream bytes *)

\* the requests written piecewise, padded, or followed by an endless stream
StreamRequests == {r \in Requests : r.trickle}

AcceptStream == AcceptFrom(StreamRequests)

NextStream ==
    \/ AcceptStream
    \/ ClientSend
    \/ ClientTrickle
    \/ ClientFlood
    \/ ClientClose
    \/ Tick
    \/ ReadChunk
    \/ ReadEof
    \/ ReadIdle
    \/ ReadError
    \/ RespondTooLarge
    \/ RespondTimedOut
    \/ RespondParseFailed
    \/ RespondValidationFailed
    \/ BeginDispatch
    \/ DispatchAction
    \/ WriteResponse
    \/ AuditAppend
    \/ Finish

\* the runtime runs a task that can make a step, and time passes; nothing is
\* assumed of the peer
LiveSpec ==
    /\ Init
    /\ [][NextStream]_vars
    /\ WF_vars(Tick)
    /\ WF_vars(ReadChunk)
    /\ WF_vars(ReadEof)
    /\ WF_vars(ReadIdle)
    /\ WF_vars(RespondTooLarge)
    /\ WF_vars(RespondTimedOut)
    /\ WF_vars(RespondParseFailed)
    /\ WF_vars(RespondValidationFailed)
    /\ WF_vars(BeginDispatch)
    /\ WF_vars(DispatchAction)
    /\ WF_vars(WriteResponse)
    /\ WF_vars(AuditAppend)

----------------------------------------------------------------------------
(* The policy gates on one action: the inputs are drawn, the dispatch applied *)

S_slash == <<"/">>
S_dotdot == <<".", ".">>
S_tmp_up == <<"/", "t", "m", "p", "/", ".", ".">>
S_rel_a_up == <<"a", "/", ".", ".">>
S_usr_bin_reboot == <<"/", "u", "s", "r", "/", "b", "i", "n", "/", "r", "e", "b", "o", "o", "t">>

DenyNames == {S_dd, S_mkfs, S_mkfs_ext4, S_shutdown, S_reboot}

Programs ==
    { pre \o name : pre \in {<<>>, S_bin, S_sbin}, name \in DenyNames }
    \cup { S_echo, S_bin_echo, S_rm, S_bin_rm, S_usr_bin_true, S_usr_bin_reboot }

Paths ==
    { S_etc_passwd, S_tmp, S_tmp_a, S_tmp_a_up_b, S_rel, S_rel_up, S_rel_dots, S_rel_dot,
      S_tmpfile, S_slash, S_dotdot, S_tmp_up, S_rel_a_up }

\* the action with its danger field set
WithDanger(a) == [a EXCEPT !.danger = Some(<<"r", "i", "s", "k", "y">>)]

\* the actions that are only ever previewed, over every verb, manager, tool,
\* firmware operation and cgroup target the requests can name
PreviewActions ==
    LET common == [reason |-> S_reason, danger |-> None, recovery |-> None]
        managers == {"apt", "dnf", "pacman", "zypper", "brew", "other"}
        packages == { <<PlanWords.perf>>, <<PlanWords.top, PlanWords.ps>> }
    IN  { ServiceControlOf(v) :
             v \in {"start", "stop", "restart", "enable", "disable", "status"} }
        \cup { [type |-> t, manager |-> m, packages |-> ps] @@ common :
                 t \in {"install_packages", "remove_packages"}, m \in managers,
                 ps \in packages }
        \cup { [type |-> "update_system", manager |-> m] @@ common : m \in managers }
        \cup { [type |-> "observe", tool |-> t, args |-> as] @@ common :
                 t \in {"ps", "top", "journalctl", "perf", "bpftrace", "other"},
                 as \in { <<>>, <<PlanWords.dash_p, PlanWords.dash_y>> } }
        \cup { [type |-> "cgroup_apply", pid |-> pid, unit |-> unit, cpu_weight |-> w,
                mem_max_bytes |-> m] @@ common :
                 pid \in {None, Some(42)}, unit \in {None, Some(S_unit)},
                 w \in {None, Some(100)}, m \in {None, Some(1048576)} }
        \cup { [type |-> "firmware_op", op |-> op, uefi_var_name |-> name] @@ common :
                 op \in {"inventory", "fwupd_update", "uefi_var_read"},
                 name \in {None, Some(<<" ">>), Some(<<"B", "o", "o", "t">>)} }

PolicyActions ==
    PreviewActions \cup
    { ExecOf(<<prog>>) : prog \in Programs }
    \cup { ExecOf(<<>>) }
    \cup { ReadFileOf(path) : path \in Paths }
    \cup { WriteFileOf(path) : path \in Paths }
    \cup { WithDanger(ExecOf(<<S_bin_echo>>)), WithDanger(ReadFileOf(S_tmp_a)),
           WithDanger(WriteFileOf(S_tmp_a)) }

PolicyTokens ==
    { None, Some(T_default), Some(T_custom), Some(T_padded_default), Some(T_padded_custom),
      Some(T_wrong), Some(T_blank) }

PolicyInit ==
    /\ confirm_token \in DaemonTokens
    /\ pc = "accept"
    /\ client = [doc |-> [text |-> None, len |-> 0], remaining |-> 0, shorts |-> 0,
                 trickle |-> FALSE, endless |-> FALSE, closed |-> FALSE]
    /\ ConnInit
    /\ polIn \in [mode : Modes, action : PolicyActions, token : PolicyTokens]
    /\ polOut = None
    /\ valIn = NoValidateRun
    /\ valOut = None
    /\ rd = None /\ cli = None /\ aud = None

\* the action, by its variant, is one the policy asks a confirmation for
requires_confirmation(action) ==
    CASE action.type = "exec" -> exec_requires_confirmation(action)
      [] action.type \in {"read_file", "write_file"} -> path_requires_confirmation(action.path)
      [] OTHER -> FALSE

\* the action drawn is dispatched as handle_client's loop dispatches it
PolicyEval ==
    /\ polOut = None
    /\ \E host \in HostOutcomes(polIn.mode, polIn.action) :
          polOut' = Some([denied |-> polIn.action.type = "exec" /\ is_exec_denied(polIn.action),
                          requires |-> requires_confirmation(polIn.action),
                          valid |-> confirmation_is_valid(polIn.token, confirm_token),
                          host |-> host,
                          out |-> dispatch_one(polIn.mode, polIn.action, polIn.token,
                                               confirm_token, host)])
    /\ UNCHANGED <<confirm_token, pc, client, pending, timer, input, exceeded, idle, received,
                   plan, idx, results, effects, response, wire, wshut, auditLog, ret, polIn,
                   valIn, valOut, rd, cli, aud>>

PolicySpec == PolicyInit /\ [][PolicyEval]_vars

\* ---------------------------------------------------------------------------
\* validate_action_plan on plans at and beyond the bounds of the data model
\* ---------------------------------------------------------------------------

\* n bytes
Rep(n) == [i \in 1..n |-> "x"]

\* one well-formed action of every variant the validator knows
Templates ==
    [ exec |-> ExecOf(<<S_bin_echo>>),
      read_file |-> ReadFileOf(S_tmp_a),
      write_file |-> WriteFileOf(S_tmp_a),
      service_control |-> ServiceControlOf("restart"),
      install_packages |->
          [type |-> "install_packages", manager |-> "apt", packages |-> <<PlanWords.perf>>,
           reason |-> S_reason, danger |-> None, recovery |-> None],
      remove_packages |->
          [type |-> "remove_packages", manager |-> "apt", packages |-> <<PlanWords.perf>>,
           reason |-> S_reason, danger |-> None, recovery |-> None],
      update_system |->
          [type |-> "update_system", manager |-> "apt", reason |-> S_reason,
           danger |-> None, recovery |-> None],
      observe |->
          [type |-> "observe", tool |-> "ps", args |-> <<PlanWords.dash_y>>,
           reason |-> S_reason, danger |-> None, recovery |-> None],
      cgroup_apply |->
          [type |-> "cgroup_apply", pid |-> Some(42), unit |-> None, cpu_weight |-> Some(100),
           mem_max_bytes |-> None, reason |-> S_reason, danger |-> None, recovery |-> None] ]

\* the action, and the action with one field at or beyond what the data
\* model allows
VariantsOf(a) ==
    { a, WithDanger(a),
      [a EXCEPT !.danger = Some(Rep(MAX_REASON_BYTES))],
      [a EXCEPT !.danger = Some(Rep(MAX_REASON_BYTES + 1))],
      [a EXCEPT !.recovery = Some(Rep(MAX_REASON_BYTES))],
      [a EXCEPT !.recovery = Some(Rep(MAX_REASON_BYTES + 1))],
      [a EXCEPT !.reason = <<" ">>],
      [a EXCEPT !.reason = Rep(MAX_REASON_BYTES)],
      [a EXCEPT !.reason = Rep(MAX_REASON_BYTES + 1)] }
    \cup CASE a.type = "exec" ->
                { [a EXCEPT !.argv = <<>>],
                  [a EXCEPT !.argv = [i \in 1..MAX_EXEC_ARGC |-> S_echo]],
                  [a EXCEPT !.argv = [i \in 1..(MAX_EXEC_ARGC + 1) |-> S_echo]],
                  [a EXCEPT !.argv = <<S_echo, Rep(MAX_EXEC_ARG_BYTES)>>],
                  [a EXCEPT !.argv = <<S_echo, Rep(MAX_EXEC_ARG_BYTES + 1)>>],
                  [a EXCEPT !.env = Some([i \in 1..MAX_EXEC_ENV_ENTRIES |-> <<S_r1, S_reason>>])],
                  [a EXCEPT !.env = Some([i \in 1..(MAX_EXEC_ENV_ENTRIES + 1) |-> <<S_r1, S_reason>>])],
                  [a EXCEPT !.env = Some(<< <<Rep(MAX_EXEC_ENV_KEY_BYTES), S_reason>> >>)],
                  [a EXCEPT !.env = Some(<< <<Rep(MAX_EXEC_ENV_KEY_BYTES + 1), S_reason>> >>)],
                  [a EXCEPT !.env = Some(<< <<S_r1, Rep(MAX_EXEC_ENV_VALUE_BYTES)>> >>)],
                  [a EXCEPT !.env = Some(<< <<S_r1, Rep(MAX_EXEC_ENV_VALUE_BYTES + 1)>> >>)],
                  [a EXCEPT !.timeout_sec = 0],
                  [a EXCEPT !.timeout_sec = MAX_EXEC_TIMEOUT_SEC],
                  [a EXCEPT !.timeout_sec = MAX_EXEC_TIMEOUT_SEC + 1],
                  [a EXCEPT !.as_root = TRUE] }
           [] a.type = "read_file" ->
                { [a EXCEPT !.path = <<" ">>],
                  [a EXCEPT !.path = Rep(MAX_PATH_BYTES)],
                  [a EXCEPT !.path = Rep(MAX_PATH_BYTES + 1)],
                  [a EXCEPT !.max_bytes = 0],
                  [a EXCEPT !.max_bytes = MAX_READ_FILE_BYTES],
                  [a EXCEPT !.max_bytes = MAX_READ_FILE_BYTES + 1] }
           [] a.type = "write_file" ->
                { [a EXCEPT !.path = <<" ">>],
                  [a EXCEPT !.path = Rep(MAX_PATH_BYTES)],
                  [a EXCEPT !.path = Rep(MAX_PATH_BYTES + 1)],
                  [a EXCEPT !.content = Rep(MAX_WRITE_FILE_BYTES)],
                  [a EXCEPT !.content = Rep(MAX_WRITE_FILE_BYTES + 1)] }
           [] a.type = "service_control" ->
                { [a EXCEPT !.unit = <<" ">>],
                  [a EXCEPT !.unit = Rep(MAX_SYSTEMD_UNIT_BYTES)],
                  [a EXCEPT !.unit = Rep(MAX_SYSTEMD_UNIT_BYTES + 1)] }
           [] a.type \in {"install_packages", "remove_packages"} ->
                { [a EXCEPT !.packages = <<>>],
                  [a EXCEPT !.packages = [i \in 1..MAX_PACKAGES |-> PlanWords.perf]],
                  [a EXCEPT !.packages = [i \in 1..(MAX_PACKAGES + 1) |-> PlanWords.perf]],
                  [a EXCEPT !.packages = <<PlanWords.perf, <<" ">> >>],
                  [a EXCEPT !.packages = <<Rep(MAX_PACKAGE_NAME_BYTES)>>],
                  [a EXCEPT !.packages = <<Rep(MAX_PACKAGE_NAME_BYTES + 1)>>] }
           [] a.type = "observe" ->
                { [a EXCEPT !.args = <<>>],
                  [a EXCEPT !.args = [i \in 1..MAX_OBSERVE_ARGS |-> PlanWords.dash_y]],
                  [a EXCEPT !.args = [i \in 1..(MAX_OBSERVE_ARGS + 1) |-> PlanWords.dash_y]],
                  [a EXCEPT !.args = <<PlanWords.dash_y, <<" ">> >>],
                  [a EXCEPT !.args = <<Rep(MAX_OBSERVE_ARG_BYTES)>>],
                  [a EXCEPT !.args = <<Rep(MAX_OBSERVE_ARG_BYTES + 1)>>] }
           [] OTHER ->
                { [a EXCEPT !.pid = None, !.unit = Some(Rep(MAX_SYSTEMD_UNIT_BYTES))],
                  [a EXCEPT !.pid = None, !.unit = Some(Rep(MAX_SYSTEMD_UNIT_BYTES + 1))] }

\* mode strings: whitespace and prefixes around zero to seven digits
ModeStrings ==
    { pre \o ds \o post :
        pre \in { <<>>, <<" ">>, <<"0", "o">>, <<"\t", "0", "o">>, <<"0", "o", "0", "o">>,
                  <<"0", "o", " ">>, <<"+">>, <<"-">> },
        ds \in { <<>>, <<"7">>, <<"6", "4">>, <<"6", "4", "4">>, <<"0", "6", "4", "4">>,
                 <<"7", "7", "7", "7">>, <<"0", "0", "0">>, <<"6", "4", "8">>,
                 <<"6", "4", "a">>, <<"0", "0", "6", "4", "4">>,
                 <<"1", "2", "3", "4", "5", "6", "7">> },
        post \in { <<>>, <<" ">>, <<"\n">> } }

\* plans that aim at the defensive branches of the handlers: a write_file
\* under every mode string, an exec without argv, a cgroup_apply without
\* target or with two
DefensivePlans ==
    { MkPlan(S_r1, "execute", <<[WriteFileOf(S_tmp_a) EXCEPT !.mode = m]>>, None) :
        m \in ModeStrings }
    \cup { MkPlan(S_r1, m, <<Ping, [Templates.cgroup_apply EXCEPT !.pid = pid, !.unit = unit]>>,
                  None) :
             m \in Modes, pid \in {None, Some(42)}, unit \in {None, Some(S_unit)} }
    \cup { MkPlan(S_r1, "execute", <<[ExecOf(<<S_echo>>) EXCEPT !.argv = <<>>], Ping>>, None) }

\* plans that violate more than one constraint
SeveralViolations ==
    { [MkPlan(S_r1, "plan_only", <<Ping>>, Some([token |-> <<" ">>])) EXCEPT !.version = <<" ">>],
      MkPlan(<<" ">>, "plan_only", [i \in 1..(MAX_ACTIONS + 1) |-> Ping], None),
      MkPlan(S_r1, "plan_only", [i \in 1..(MAX_ACTIONS + 1) |-> Ping],
             Some([token |-> <<" ">>])),
      MkPlan(S_r1, "execute",
             <<[ExecOf(<<S_echo>>) EXCEPT !.as_root = TRUE, !.cwd = Some(<<" ">>)]>>, None),
      MkPlan(S_r1, "execute",
             <<[ExecOf(<<S_echo>>) EXCEPT !.as_root = TRUE, !.timeout_sec = 0]>>, None),
      MkPlan(S_r1, "execute",
             <<[ExecOf(<<S_echo>>) EXCEPT !.cwd = Some(<<" ">>), !.reason = <<" ">>]>>, None),
      MkPlan(S_r1, "execute",
             <<[ReadFileOf(S_etc_passwd) EXCEPT !.path = <<" ">>],
               [ExecOf(<<S_echo>>) EXCEPT !.timeout_sec = 0]>>, None),
      MkPlan(S_r1, "execute",
             <<Ping, [ExecOf(<<S_echo>>) EXCEPT !.timeout_sec = 0],
               [ReadFileOf(S_etc_passwd) EXCEPT !.path = <<" ">>]>>, None),
      [MkPlan(S_r1, "execute", <<[ExecOf(<<S_echo>>) EXCEPT !.timeout_sec = 0]>>, None)
         EXCEPT !.version = <<" ">>] }

\* the plans handed to the validator: one action of one variant with or
\* without a confirmation, and a ping under plan fields at and beyond
\* their bounds
ValidatePlans ==
    { MkPlan(S_r1, "execute", <<a>>, c) :
        a \in UNION { VariantsOf(Templates[k]) : k \in DOMAIN Templates },
        c \in {None, Some([token |-> T_wrong])} }
    \cup { [MkPlan(id, "execute", <<Ping>>, None) EXCEPT !.session_id = sid, !.version = ver] :
             id \in {<<" ">>, Rep(MAX_REQUEST_ID_BYTES), Rep(MAX_REQUEST_ID_BYTES + 1)},
             sid \in {None, Some(<<" ">>), Some(Rep(MAX_SESSION_ID_BYTES)),
                      Some(Rep(MAX_SESSION_ID_BYTES + 1))},
             ver \in {<<" ">>, Rep(MAX_VERSION_BYTES), Rep(MAX_VERSION_BYTES + 1)} }
    \cup { MkPlan(S_r1, "plan_only", <<Ping>>, Some([token |-> t])) :
             t \in {<<>>, <<" ">>, Rep(MAX_TOKEN_BYTES), Rep(MAX_TOKEN_BYTES + 1)} }
    \cup { MkPlan(S_r1, "plan_only", [i \in 1..n |-> Ping], None) :
             n \in {0, MAX_ACTIONS, MAX_ACTIONS + 1} }
    \cup SeveralViolations
    \cup DefensivePlans

ValidateInit ==
    /\ confirm_token \in DaemonTokens
    /\ pc = "accept"
    /\ client = [doc |-> [text |-> None, len |-> 0], remaining |-> 0, shorts |-> 0,
                 trickle |-> FALSE, endless |-> FALSE, closed |-> FALSE]
    /\ ConnInit
    /\ polIn = NoPolicyRun
    /\ polOut = None
    /\ valIn \in ValidatePlans
    /\ valOut = None
    /\ rd = None /\ cli = None /\ aud = None

\* validate_action_plan(&plan), as handle_client calls it on the parsed plan
ValidateEval ==
    /\ valOut = None
    /\ valOut' = Some(validate_action_plan(valIn))
    /\ UNCHANGED <<confirm_token, pc, client, pending, timer, input, exceeded, idle, received,
                   plan, idx, results, effects, response, wire, wshut, auditLog, ret,
                   polIn, polOut, valIn, rd, cli, aud>>

ValidateSpec == ValidateInit /\ [][ValidateEval]_vars

\* ---------------------------------------------------------------------------
\* Properties of the connection handler (Spec, LiveSpec)
\* ---------------------------------------------------------------------------

\* the code of the error of a response, "none" for a null error
ErrorCode(resp) == IF IsSome(resp.error) THEN Unwrap(resp.error).code ELSE "none"

ErrorMessage(resp) == IF IsSome(resp.error) THEN Unwrap(resp.error).message ELSE ""

\* handle_client has returned
Returned == pc = "done"

\* the response was built but write_all failed
WriteFailed == IsSome(response) /\ wire = <<>>

\* the response was written but shutdown failed
ShutdownFailed == wire # <<>> /\ ~wshut

\* C1: every accepted connection, however its read phase ended (EOF, idle
\* timeout, size ceiling, socket read error), has been sent exactly one
\* response and its socket shut down for writes by the time its handler
\* returns (a failing write or shutdown on the socket apart).
C1_ExactlyOneResponse ==
    Returned =>
       \/ WriteFailed
       \/ Len(wire) = 1 /\ response = Some(wire[1]) /\ (wshut \/ ShutdownFailed)

\* the handler has returned after a failing read, and nothing was sent
C1_ReadErrorNoResponse ==
    Returned /\ ret = "err" /\ response = None /\ wire = <<>> /\ ~wshut

\* C2: the read loop terminates for every client, one that never closes and
\* keeps sending with gaps shorter than READ_IDLE_TIMEOUT included, before
\* and after the ceiling was exceeded.
C2_ReadLoopTerminates == (pc = "read") ~> (pc # "read")

\* the loop is draining an endless stream past the ceiling
C2_DrainingEndless ==
    pc = "read" /\ exceeded /\ client.endless /\ ~client.closed /\ received = RecvCap

\* C3: a request of more than MAX_REQUEST_BYTES bytes is answered
\* request_too_large with no result and nothing dispatched, a request of
\* exactly MAX_REQUEST_BYTES bytes is not answered so, the buffer never
\* holds more than MAX_REQUEST_BYTES bytes, and once the ceiling is
\* exceeded the chunks read are dropped, never appended.
C3_SizeCeiling ==
    /\ [](/\ input <= MAX_REQUEST_BYTES
          /\ received > MAX_REQUEST_BYTES => exceeded
          /\ exceeded => received > MAX_REQUEST_BYTES
          /\ IsSome(response) /\ received > MAX_REQUEST_BYTES =>
                /\ ErrorCode(Unwrap(response)) = "request_too_large"
                /\ Unwrap(response).results = <<>>
                /\ plan = None /\ idx = 0 /\ results = <<>> /\ effects = <<>>
          /\ IsSome(response) /\ received <= MAX_REQUEST_BYTES =>
                ErrorCode(Unwrap(response)) # "request_too_large")
    /\ [][pc = "read" /\ exceeded /\ pc' = "read" => exceeded' /\ input' = input]_vars

\* a plan that would have been dispatched, padded past the ceiling, has
\* been answered after the excess was drained
C3_OversizeAnswered ==
    /\ Returned /\ wire # <<>>
    /\ IsSome(client.doc.text) /\ client.doc.len < MAX_REQUEST_BYTES
    /\ received > MAX_REQUEST_BYTES + BUF_SIZE
    /\ input <= MAX_REQUEST_BYTES

\* C4: how the read phase ended decides the response, in this order:
\* ceiling exceeded -> request_too_large, idle or not; idle with an empty
\* buffer -> parse_failed "read timed out"; idle with bytes in the buffer, or
\* EOF -> the buffer is parsed and handled as if the client had closed.
C4_ReadPhasePriority ==
    IsSome(response) =>
       LET resp == Unwrap(response)
           parsed == parse_action_plan(input, client.doc)
       IN  /\ exceeded => ErrorCode(resp) = "request_too_large"
           /\ ~exceeded /\ idle /\ input = 0 =>
                 /\ ErrorCode(resp) = "parse_failed"
                 /\ ErrorMessage(resp) = "read timed out"
           /\ ~exceeded /\ ~(idle /\ input = 0) =>
                 /\ ErrorCode(resp) # "request_too_large"
                 /\ ErrorCode(resp) = "parse_failed" => ErrorMessage(resp) = "parse failed"
                 /\ ~IsSome(parsed) => ErrorCode(resp) = "parse_failed"
                 /\ IsSome(parsed) /\ ~IsSome(validate_action_plan(Unwrap(parsed))) =>
                       /\ resp.error = None
                       /\ plan = parsed
                       /\ Len(resp.results) = Len(Unwrap(parsed).actions)

\* a client that sent a whole plan and went idle without closing was served
C4_IdleWithBytesDispatched ==
    /\ Returned /\ idle /\ ~exceeded /\ input > 0 /\ ~client.closed
    /\ wire # <<>> /\ wire[1].error = None /\ wire[1].results # <<>>

\* the request is one that fails as a whole
RequestFails ==
    \/ exceeded
    \/ idle /\ input = 0
    \/ ~IsSome(parse_action_plan(input, client.doc))
    \/ LET p == Unwrap(parse_action_plan(input, client.doc))
       IN  \/ IsSome(validate_plan_fields(p))
           \/ \E i \in 1..Len(p.actions) : IsSome(validate_action(p, p.actions[i]))

\* C5: a request-level error (oversize, empty timeout, parse failure,
\* validation failure on any action) short-circuits dispatch: no handler
\* is invoked, and the response has no result and a non-null error.
C5_ErrorShortCircuits ==
    /\ pc \in {"decide", "dispatch", "audit", "done"} /\ RequestFails =>
          /\ plan = None /\ idx = 0 /\ results = <<>> /\ effects = <<>>
          /\ IsSome(response) =>
                Unwrap(response).error # None /\ Unwrap(response).results = <<>>
    /\ IsSome(response) /\ Unwrap(response).error # None =>
          /\ Unwrap(response).results = <<>>
          /\ idx = 0 /\ effects = <<>>

\* an execute plan whose first action is a valid echo and whose second
\* action is invalid was refused with nothing run
C5_SecondActionInvalid ==
    /\ Returned /\ wire # <<>> /\ ErrorCode(wire[1]) = "validation_failed"
    /\ LET p == Unwrap(client.doc.text)
       IN  /\ p.mode = "execute" /\ Len(p.actions) = 2
           /\ p.actions[1].type = "exec" /\ p.actions[1].argv[1] = S_bin_echo
           /\ ~IsSome(validate_action(p, p.actions[1]))
           /\ IsSome(validate_action(p, p.actions[2]))
    /\ effects = <<>>

\* ---------------------------------------------------------------------------
\* Properties of the policy gates (PolicySpec)
\* ---------------------------------------------------------------------------

PolicyRan == IsSome(polOut)

ExecRan == PolicyRan /\ polIn.action.type = "exec"

FileRan == PolicyRan /\ polIn.action.type \in {"read_file", "write_file"}

\* the one-action plan that carries the action and the token drawn
PolicyPlan ==
    MkPlan(S_r1, polIn.mode, <<polIn.action>>,
           IF IsSome(polIn.token) THEN Some([token |-> Unwrap(polIn.token)]) ELSE None)

\* that plan passes validate_action_plan, so that its action is dispatched
Dispatched == PolicyRan /\ ~IsSome(validate_action_plan(PolicyPlan))

\* the dangerous basenames, bare or under /bin/ or /sbin/
DeniedByBasename == { pre \o name : pre \in {<<>>, S_bin, S_sbin}, name \in DenyNames }

\* C6: an exec whose argv[0] is dd, mkfs, mkfs.ext4, shutdown or reboot,
\* bare or prefixed with /bin/ or /sbin/, is flagged by is_exec_denied and
\* answered ok = false, policy_denied, "exec denied by policy".
C6_DenyListCoversPrefixes ==
    ExecRan /\ polIn.action.argv # <<>> /\ polIn.action.argv[1] \in DeniedByBasename =>
       /\ Unwrap(polOut).denied
       /\ ~Unwrap(polOut).out.result.ok
       /\ Unwrap(polOut).out.result.error = ActionErr("policy_denied", "exec denied by policy")
       /\ Unwrap(polOut).out.did = <<>>

\* /bin/reboot passed validation and was spawned under a valid token
C6_BinRebootSpawned ==
    /\ ExecRan /\ Dispatched /\ polIn.mode = "execute"
    /\ polIn.action.argv = <<S_bin \o S_reboot>>
    /\ ~Unwrap(polOut).denied /\ Unwrap(polOut).valid
    /\ Unwrap(polOut).out.did # <<>> /\ Unwrap(polOut).out.did[1] = Spawn(polIn.action.argv)

\* C7: a deny-listed exec is refused in both modes and whatever the
\* confirmation token: the deny check comes before the confirmation
\* check, and the program is never spawned.
C7_DenyNotOverridable ==
    ExecRan /\ Unwrap(polOut).denied =>
       /\ ~Unwrap(polOut).out.result.ok
       /\ Unwrap(polOut).out.result.error = ActionErr("policy_denied", "exec denied by policy")
       /\ Unwrap(polOut).out.did = <<>>

\* a deny-listed program sent for execution without any valid token
C7_DeniedWithoutToken ==
    /\ ExecRan /\ Dispatched /\ polIn.mode = "execute"
    /\ polIn.action.argv = <<S_sbin \o S_reboot>>
    /\ Unwrap(polOut).requires /\ ~Unwrap(polOut).valid
    /\ Unwrap(polOut).out.result.error = ActionErr("policy_denied", "exec denied by policy")

AllowedWithoutConfirmation(argv) == argv # <<>> /\ argv[1] \in {S_echo, S_bin_echo}

\* C8 as stated: exec_requires_confirmation holds exactly when argv[0] is
\* none of "echo", "/bin/echo" (a missing argv[0] included); such an exec
\* without a valid token is answered confirmation_required and not spawned,
\* and with a valid token it is run.
C8_AsStated ==
    ExecRan =>
       LET o == Unwrap(polOut)
       IN  /\ o.requires = ~AllowedWithoutConfirmation(polIn.action.argv)
           /\ Dispatched /\ o.requires /\ ~o.valid =>
                 /\ o.out.result.error = ActionErr("confirmation_required", "confirmation required")
                 /\ o.out.did = <<>>
           /\ Dispatched /\ o.requires /\ o.valid /\ polIn.mode = "execute" =>
                 o.out = exec_run(polIn.action, o.host)

\* C8: exec_requires_confirmation holds exactly when argv[0] is none of
\* "echo", "/bin/echo" (a missing argv[0] included); such an exec that the
\* deny-list does not flag is answered confirmation_required and not
\* spawned without a valid token, and is run in execute mode with one.
C8_ExecConfirmation ==
    ExecRan =>
       LET o == Unwrap(polOut)
       IN  /\ o.requires = ~AllowedWithoutConfirmation(polIn.action.argv)
           /\ o.requires /\ ~o.denied /\ ~o.valid =>
                 /\ ~o.out.result.ok
                 /\ o.out.result.error = ActionErr("confirmation_required", "confirmation required")
                 /\ o.out.did = <<>>
           /\ o.requires /\ ~o.denied /\ o.valid /\ polIn.mode = "execute" =>
                 o.out = exec_run(polIn.action, o.host)

\* /usr/bin/true was spawned in execute mode under a valid token
C8_ConfirmedExecRun ==
    /\ ExecRan /\ Dispatched /\ polIn.mode = "execute"
    /\ polIn.action.argv = <<S_usr_bin_true>> /\ Unwrap(polOut).host = "exit0"
    /\ Unwrap(polOut).requires /\ Unwrap(polOut).valid /\ ~Unwrap(polOut).denied
    /\ Unwrap(polOut).out.did # <<>> /\ Unwrap(polOut).out.did[1] = Spawn(polIn.action.argv)

\* path holds ".." as one of its '/'-separated components
HasParentDirComponent(path) ==
    \E i \in 1..(Len(path) - 1) :
       /\ path[i] = "." /\ path[i + 1] = "."
       /\ (i = 1 \/ path[i - 1] = "/")
       /\ (i + 1 = Len(path) \/ path[i + 2] = "/")

\* C9: path_requires_confirmation holds exactly when the path is absolute
\* and does not start with "/tmp/", or has a ".." component; a read_file
\* or write_file on such a path without a valid token is answered
\* confirmation_required and the file is neither opened nor written.
C9_PathConfirmation ==
    FileRan =>
       LET o == Unwrap(polOut)
           path == polIn.action.path
       IN  /\ o.requires = (\/ path # <<>> /\ path[1] = "/" /\ ~StartsWith(path, S_tmp_slash)
                            \/ HasParentDirComponent(path))
           /\ path \in {S_etc_passwd, S_tmp, S_tmp_a_up_b} => o.requires
           /\ path \in {S_tmp_a, S_rel} => ~o.requires
           /\ o.requires /\ ~o.valid =>
                 /\ ~o.out.result.ok
                 /\ o.out.result.error = ActionErr("confirmation_required", "confirmation required")
                 /\ o.out.did = <<>>

\* a write under /tmp/ that climbs out with ".." was refused without a token
C9_ParentDirRefused ==
    /\ FileRan /\ Dispatched /\ polIn.mode = "execute" /\ polIn.action.type = "write_file"
    /\ polIn.action.path = S_tmp_a_up_b /\ polIn.token = None
    /\ Unwrap(polOut).requires
    /\ Unwrap(polOut).out.result.error = ActionErr("confirmation_required", "confirmation required")
    /\ Unwrap(polOut).out.did = <<>>

\* t without its leading and trailing whitespace
TrimmedToken(t) ==
    LET keep == { i \in 1..Len(t) : ~IsWs(t[i]) }
    IN  IF keep = {} THEN <<>>
        ELSE SubSeq(t, CHOOSE i \in keep : \A j \in keep : i <= j,
                       CHOOSE i \in keep : \A j \in keep : i >= j)

\* the token sent is the configured one, surrounding whitespace apart
TokenMatches == IsSome(polIn.token) /\ TrimmedToken(Unwrap(polIn.token)) = confirm_token

\* C10 as stated: a confirmation is valid iff a token is present and its
\* trimmed value equals the configured token (so "i-understand" is refused
\* under another configured token), and every action that requires
\* confirmation and comes with an absent or invalid token is answered
\* confirmation_required, "confirmation required", in both modes.
C10_AsStated ==
    PolicyRan =>
       LET o == Unwrap(polOut)
       IN  /\ o.valid = TokenMatches
           /\ confirm_token # T_default /\ polIn.token = Some(T_default) => ~o.valid
           /\ Dispatched /\ o.requires /\ ~o.valid =>
                 o.out.result.error = ActionErr("confirmation_required", "confirmation required")

\* C10: a confirmation is valid iff a token is present and its trimmed
\* value equals the configured token (so "i-understand" is refused under
\* another configured token), and every action that requires confirmation,
\* is not a deny-listed exec, and comes with an absent or invalid token is
\* answered ok = false, confirmation_required, "confirmation required", in
\* both modes.
C10_ConfirmationToken ==
    PolicyRan =>
       LET o == Unwrap(polOut)
       IN  /\ o.valid = TokenMatches
           /\ confirm_token # T_default /\ polIn.token = Some(T_default) => ~o.valid
           /\ o.requires /\ ~o.denied /\ ~o.valid =>
                 /\ ~o.out.result.ok
                 /\ o.out.result.error = ActionErr("confirmation_required", "confirmation required")
                 /\ o.out.did = <<>>

\* the default token was refused in plan_only mode by a daemon configured
\* with another one
C10_DefaultTokenRefused ==
    /\ Dispatched /\ confirm_token = T_custom /\ polIn.token = Some(T_default)
    /\ polIn.mode = "plan_only"
    /\ Unwrap(polOut).requires /\ ~Unwrap(polOut).denied /\ ~Unwrap(polOut).valid
    /\ Unwrap(polOut).out.result.error = ActionErr("confirmation_required", "confirmation required")

\* the action drawn declares danger and is one of exec, read_file, write_file
DangerDeclared ==
    /\ polIn.action.type \in {"exec", "read_file", "write_file"}
    /\ IsSome(polIn.action.danger)

\* C11: a plan whose exec, read_file or write_file action sets danger is
\* rejected unless a valid confirmation is attached: with a token that is
\* non-blank but is not the daemon's configured token, the action is never
\* executed.
C11_DangerNeedsValidToken ==
    /\ Dispatched /\ DangerDeclared => TokenMatches
    /\ Dispatched /\ DangerDeclared /\ ~TokenMatches => Unwrap(polOut).out.did = <<>>

\* /bin/echo with danger set and a wrong token was spawned
C11_DangerEchoSpawned ==
    /\ Dispatched /\ DangerDeclared /\ polIn.mode = "execute"
    /\ polIn.action.type = "exec" /\ polIn.action.argv = <<S_bin_echo>>
    /\ polIn.token = Some(T_wrong)
    /\ ~Unwrap(polOut).valid
    /\ Unwrap(polOut).out.did # <<>> /\ Unwrap(polOut).out.did[1] = Spawn(polIn.action.argv)

\* ---------------------------------------------------------------------------
\* Properties of the validator (ValidateSpec)
\* ---------------------------------------------------------------------------

\* validate_action_plan returned Ok(()) on the plan drawn
Accepted == valOut = Some(None)

\* the action carries a danger field and sets it
DeclaresDanger(a) == a.type # "ping" /\ IsSome(a.danger)

\* C12: in every plan that passes validate_action_plan, if any action of
\* any variant (exec, read_file, write_file, service_control,
\* install_packages, remove_packages, update_system, observe,
\* cgroup_apply) declares danger, then confirmation is present and its
\* token is non-blank after trimming.
C12_DangerImpliesConfirmation ==
    Accepted /\ (\E i \in 1..Len(valIn.actions) : DeclaresDanger(valIn.actions[i])) =>
       /\ IsSome(valIn.confirmation)
       /\ TrimmedToken(Unwrap(valIn.confirmation).token) # <<>>

\* a service_control that declares danger was accepted without confirmation
C12_ServiceDangerAccepted ==
    /\ Accepted /\ valIn.confirmation = None
    /\ Len(valIn.actions) = 1 /\ valIn.actions[1].type = "service_control"
    /\ DeclaresDanger(valIn.actions[1])

\* s is not blank and is at most max bytes long
NonBlankWithin(s, max) == TrimmedToken(s) # <<>> /\ Len(s) \in 1..max

\* the optional string is absent or at most max bytes long
AbsentOrWithin(o, max) == o = None \/ Len(Unwrap(o)) <= max

\* the bounds of the data model that every variant of action shares
SharedBounds(a) ==
    /\ Len(a.reason) \in 1..2048
    /\ AbsentOrWithin(a.danger, 2048)
    /\ AbsentOrWithin(a.recovery, 2048)

\* the bounds of the data model on the fields of one variant
VariantBounds(a) ==
    CASE a.type = "exec" ->
            /\ Len(a.argv) \in 1..64
            /\ \A i \in 1..Len(a.argv) : Len(a.argv[i]) <= 2048
            /\ a.env = None \/
                  /\ Len(Unwrap(a.env)) <= 32
                  /\ \A i \in 1..Len(Unwrap(a.env)) :
                        Len(Unwrap(a.env)[i][1]) <= 128 /\ Len(Unwrap(a.env)[i][2]) <= 2048
            /\ a.timeout_sec \in 1..60
            /\ ~a.as_root
      [] a.type = "read_file" ->
            a.max_bytes \in 1..65536 /\ NonBlankWithin(a.path, 4096)
      [] a.type = "write_file" ->
            Len(a.content) <= 65536 /\ NonBlankWithin(a.path, 4096)
      [] a.type = "service_control" -> Len(a.unit) <= 256
      [] a.type \in {"install_packages", "remove_packages"} ->
            /\ Len(a.packages) \in 1..128
            /\ \A i \in 1..Len(a.packages) : NonBlankWithin(a.packages[i], 128)
      [] a.type = "observe" ->
            /\ Len(a.args) <= 64
            /\ \A i \in 1..Len(a.args) : NonBlankWithin(a.args[i], 2048)
      [] a.type = "cgroup_apply" -> AbsentOrWithin(a.unit, 256)
      [] OTHER -> TRUE

\* the bounds of the data model on the fields of the plan
PlanBounds(p) ==
    /\ Len(p.actions) <= 64
    /\ NonBlankWithin(p.request_id, 128)
    /\ p.session_id = None \/ NonBlankWithin(Unwrap(p.session_id), 128)
    /\ NonBlankWithin(p.version, 128)
    /\ p.confirmation = None \/ Len(Unwrap(p.confirmation).token) \in 1..1024

\* C13: every plan accepted by validate_action_plan satisfies every size
\* bound of the data model: the bounds on the plan's own fields, on the
\* fields of each variant, and on reason, danger and recovery of every
\* action variant.
C13_AcceptedWithinBounds ==
    Accepted =>
       /\ PlanBounds(valIn)
       /\ \A i \in 1..Len(valIn.actions) :
             valIn.actions[i].type # "ping" =>
                SharedBounds(valIn.actions[i]) /\ VariantBounds(valIn.actions[i])

\* a service_control whose danger is longer than 2048 bytes was accepted
C13_LongDangerAccepted ==
    /\ Accepted
    /\ Len(valIn.actions) = 1 /\ valIn.actions[1].type = "service_control"
    /\ DeclaresDanger(valIn.actions[1]) /\ Len(Unwrap(valIn.actions[1].danger)) > 2048

\* ---------------------------------------------------------------------------
\* Properties of the dispatch (Spec, PolicySpec)
\* ---------------------------------------------------------------------------

\* the plan being served carries the daemon's token, whitespace apart
PlanTokenValid ==
    /\ IsSome(Unwrap(plan).confirmation)
    /\ TrimmedToken(Unwrap(Unwrap(plan).confirmation).token) = confirm_token

\* what plan_only mode answers for an exec, read_file or write_file: the
\* gate that refuses it, or the synthetic success
PlanOnlyAnswer(a, r) ==
    CASE a.type = "exec" ->
            /\ r.type = "exec" /\ r.exit_code = None /\ r.stdout = "" /\ r.stderr = ""
            /\ IF is_exec_denied(a)
               THEN ~r.ok /\ r.error = ActionErr("policy_denied", "exec denied by policy")
               ELSE IF exec_requires_confirmation(a) /\ ~PlanTokenValid
               THEN ~r.ok /\ r.error = ActionErr("confirmation_required", "confirmation required")
               ELSE r.ok /\ r.error = None
      [] a.type = "read_file" ->
            /\ r.type = "read_file" /\ r.content_base64 = None
            /\ IF path_requires_confirmation(a.path) /\ ~PlanTokenValid
               THEN ~r.ok /\ r.error = ActionErr("confirmation_required", "confirmation required")
               ELSE r.ok /\ r.error = None
      [] a.type = "write_file" ->
            /\ r.type = "write_file" /\ r.artifacts = <<>>
            /\ IF path_requires_confirmation(a.path) /\ ~PlanTokenValid
               THEN ~r.ok /\ r.error = ActionErr("confirmation_required", "confirmation required")
               ELSE r.ok /\ r.error = None
      [] OTHER -> TRUE

\* C14: in plan_only mode no action has any effect on the host (nothing
\* spawned, no file opened, written or chmod-ed), the response has
\* executed = false, and exec, read_file and write_file return a synthetic
\* ok result unless the deny-list or the confirmation gate refuses them.
C14_PlanOnlyNoEffect ==
    IsSome(plan) /\ Unwrap(plan).mode = "plan_only" =>
       /\ effects = <<>>
       /\ \A i \in 1..Len(results) : PlanOnlyAnswer(Unwrap(plan).actions[i], results[i])
       /\ IsSome(response) =>
             /\ ~Unwrap(response).executed
             /\ Unwrap(response).results = results
             /\ Len(results) = Len(Unwrap(plan).actions)

\* a plan_only plan with a write under /tmp/ and a deny-listed exec was
\* answered: the write synthetic, the exec denied, the host untouched
C14_PlanOnlyAnswered ==
    /\ Returned /\ wire # <<>> /\ IsSome(plan) /\ Unwrap(plan).mode = "plan_only"
    /\ Unwrap(plan).actions = <<WriteFileOf(S_tmp_a), ExecOf(<<S_sbin \o S_reboot>>)>>
    /\ wire[1].results[1].ok /\ ~wire[1].results[2].ok
    /\ effects = <<>>

\* the variants that are previewed and never run
PreviewOnly ==
    {"service_control", "install_packages", "remove_packages", "update_system", "observe",
     "cgroup_apply", "firmware_op"}

\* the refusal each variant is answered with in execute mode
ExecuteModeRefusal ==
    [ service_control |-> "service_control is not supported in execute mode",
      install_packages |-> "install_packages is not supported in execute mode",
      remove_packages |-> "remove_packages is not supported in execute mode",
      update_system |-> "update_system is not supported in execute mode",
      observe |-> "observe is not supported in execute mode",
      cgroup_apply |-> "cgroup_apply is not supported in execute mode",
      firmware_op |-> "firmware_op is not supported in execute mode" ]

\* C15: in execute mode a service_control, install_packages,
\* remove_packages, update_system, observe, cgroup_apply or firmware_op
\* action is never run: whatever the confirmation token, its result is
\* ok = false, argv = [], policy_denied "<name> is not supported in execute
\* mode", and nothing is spawned.
C15_PreviewNeverExecuted ==
    PolicyRan /\ polIn.mode = "execute" /\ polIn.action.type \in PreviewOnly =>
       LET o == Unwrap(polOut).out
       IN  /\ o.result.type = polIn.action.type
           /\ ~o.result.ok
           /\ o.result.argv = <<>>
           /\ o.result.error = Some([code |-> "policy_denied",
                                     message |-> ExecuteModeRefusal[polIn.action.type]])
           /\ o.did = <<>>

\* an install_packages for apt, sent in execute mode with the daemon's
\* token, was refused
C15_InstallRefusedWithToken ==
    /\ Dispatched /\ polIn.mode = "execute" /\ polIn.action.type = "install_packages"
    /\ polIn.action.manager = "apt" /\ TokenMatches
    /\ ~Unwrap(polOut).out.result.ok

\* the fixed words an install_packages / remove_packages preview starts with
ManagerPrefix ==
    [ install_packages |->
          [ apt |-> <<PlanWords.apt_get, PlanWords.install, PlanWords.dash_y>>,
            dnf |-> <<PlanWords.dnf, PlanWords.install, PlanWords.dash_y>>,
            pacman |-> <<PlanWords.pacman, PlanWords.dash_S, PlanWords.noconfirm>>,
            zypper |-> <<PlanWords.zypper, PlanWords.install, PlanWords.dash_y>>,
            brew |-> <<PlanWords.brew, PlanWords.install>> ],
      remove_packages |->
          [ apt |-> <<PlanWords.apt_get, PlanWords.remove, PlanWords.dash_y>>,
            dnf |-> <<PlanWords.dnf, PlanWords.remove, PlanWords.dash_y>>,
            pacman |-> <<PlanWords.pacman, PlanWords.dash_R, PlanWords.noconfirm>>,
            zypper |-> <<PlanWords.zypper, PlanWords.remove, PlanWords.dash_y>>,
            brew |-> <<PlanWords.brew, PlanWords.uninstall>> ] ]

\* the result is the policy_denied refusal with no argv
PreviewDenied(r) ==
    ~r.ok /\ r.argv = <<>> /\ IsSome(r.error) /\ Unwrap(r.error).code = "policy_denied"

\* the result is the preview with this argv
PreviewIs(r, argv) == r.ok /\ r.argv = argv /\ r.error = None

\* the argv of a cgroup_apply preview: systemd-run --scope, the CPUWeight
\* pair if any, the MemoryMax pair if any, the target last
CgroupArgv(a, argv) ==
    LET n == Len(argv)
        w == IF IsSome(a.cpu_weight) THEN 2 ELSE 0
        m == IF IsSome(a.mem_max_bytes) THEN 2 ELSE 0
    IN  /\ n = 3 + w + m
        /\ argv[1] = PlanWords.systemd_run /\ argv[2] = PlanWords.scope
        /\ IsSome(a.cpu_weight) =>
              /\ argv[3] = PlanWords.dash_p
              /\ argv[4] = PlanWords.CPUWeight_eq \o ToDecimal(Unwrap(a.cpu_weight))
        /\ IsSome(a.mem_max_bytes) =>
              /\ argv[n - 2] = PlanWords.dash_p
              /\ argv[n - 1] = PlanWords.MemoryMax_eq \o ToDecimal(Unwrap(a.mem_max_bytes))
        /\ IsSome(a.pid) # IsSome(a.unit)
        /\ IsSome(a.pid) => argv[n] = PlanWords.pid_eq \o ToDecimal(Unwrap(a.pid))
        /\ IsSome(a.unit) => argv[n] = PlanWords.unit_eq \o Unwrap(a.unit)

\* C16: in plan_only mode a validated preview-only action yields ok = true
\* with the argv of the table, whatever the token: service_control ->
\* [systemctl, verb, unit]; install/remove_packages -> the manager's prefix
\* then the packages in order; update_system for apt -> the six fixed words;
\* observe -> [tool, args in order]; cgroup_apply -> systemd-run --scope,
\* the optional CPUWeight pair, the optional MemoryMax pair, the one target
\* last; manager other, a non-apt update_system and tool other yield
\* policy_denied with argv = [].
C16_PreviewArgv ==
    Dispatched /\ polIn.mode = "plan_only"
    /\ polIn.action.type \in PreviewOnly \ {"firmware_op"} =>
       LET a == polIn.action
           r == Unwrap(polOut).out.result
       IN  /\ Unwrap(polOut).out.did = <<>>
           /\ r.type = a.type
           /\ r = plan_action(a, None, T_default)
           /\ CASE a.type = "service_control" ->
                     PreviewIs(r, <<PlanWords.systemctl, PlanWords[a.action], a.unit>>)
                [] a.type \in {"install_packages", "remove_packages"} ->
                     IF a.manager = "other" THEN PreviewDenied(r)
                     ELSE PreviewIs(r, ManagerPrefix[a.type][a.manager] \o a.packages)
                [] a.type = "update_system" ->
                     IF a.manager = "apt"
                     THEN PreviewIs(r, <<PlanWords.apt_get, PlanWords.update, PlanWords.and_and,
                                         PlanWords.apt_get, PlanWords.upgrade, PlanWords.dash_y>>)
                     ELSE PreviewDenied(r)
                [] a.type = "observe" ->
                     IF a.tool = "other" THEN PreviewDenied(r)
                     ELSE PreviewIs(r, <<PlanWords[a.tool]>> \o a.args)
                [] OTHER -> r.ok /\ r.error = None /\ CgroupArgv(a, r.argv)

\* a cgroup_apply naming a unit, with both settings, was previewed as
\* systemd-run --scope -p CPUWeight=100 -p MemoryMax=1048576 --unit=nginx.service
C16_CgroupPreviewed ==
    /\ Dispatched /\ polIn.mode = "plan_only" /\ polIn.action.type = "cgroup_apply"
    /\ Unwrap(polOut).out.result.argv =
          << PlanWords.systemd_run, PlanWords.scope, PlanWords.dash_p,
             <<"C", "P", "U", "W", "e", "i", "g", "h", "t", "=", "1", "0", "0">>,
             PlanWords.dash_p,
             <<"M", "e", "m", "o", "r", "y", "M", "a", "x", "=", "1", "0", "4", "8", "5", "7", "6">>,
             <<"-", "-", "u", "n", "i", "t", "=">> \o S_unit >>

\* the result variant that answers an action variant
ResultVariant(type) == IF type = "ping" THEN "pong" ELSE type

\* what the action can be answered with when it is dispatched on its own
AnswersAlone(p, a) ==
    { dispatch_one(p.mode, a, ConfirmationToken(p), confirm_token, host).result :
        host \in HostOutcomes(p.mode, a) }

\* C17: for a plan that passed validation the results hold one entry per
\* action, at the index of the action and of the variant of the action
\* (ping -> pong); every action is dispatched whatever the earlier ones
\* gave: the loop advances by one action per turn, the results it holds
\* are what each action yields on its own, and the response carries those
\* results, as many as the plan has actions.
C17_OneResultPerAction ==
    IsSome(plan) =>
       LET p == Unwrap(plan)
       IN  /\ Len(results) = idx /\ idx <= Len(p.actions)
           /\ \A i \in 1..Len(results) :
                 /\ results[i].type = ResultVariant(p.actions[i].type)
                 /\ pc = "dispatch" => results[i] \in AnswersAlone(p, p.actions[i])
           /\ IsSome(response) =>
                 /\ Unwrap(response).results = results
                 /\ Len(Unwrap(response).results) = Len(p.actions)

\* in execute mode a deny-listed exec was refused at index 1 and the write
\* at index 2 was carried out all the same
C17_SecondRunAfterDenial ==
    /\ Returned /\ wire # <<>> /\ IsSome(plan) /\ Unwrap(plan).mode = "execute"
    /\ Unwrap(plan).actions = <<ExecOf(<<S_sbin \o S_reboot>>), WriteFileOf(S_tmp_a)>>
    /\ Len(wire[1].results) = 2
    /\ ~wire[1].results[1].ok /\ wire[1].results[1].type = "exec"
    /\ wire[1].results[2].ok /\ wire[1].results[2].type = "write_file"
    /\ effects # <<>>

\* the branch handle_client took for the request at hand
Branch == ReadOutcome(exceeded, idle, input, client.doc)

\* the request parsed as a plan (it was then dispatched, or rejected by
\* validation)
PlanParsed == Branch \in {"dispatch", "validation_failed"}

\* the mode of the plan the request parsed as
ParsedMode == Unwrap(parse_action_plan(input, client.doc)).mode

\* C18 as stated: every response to a request whose plan parsed, the plan
\* dispatched or rejected by validation, has executed = (mode = execute).
C18_AsStated ==
    IsSome(response) /\ PlanParsed =>
       Unwrap(response).executed = (ParsedMode = "execute")

\* C18: every response to a dispatched plan (plan is set when the dispatch
\* begins) has executed = (mode = execute); every request-level error
\* response, the validation_failed answer to a plan in execute mode
\* included, has executed = false.
C18_ExecutedFlag ==
    IsSome(response) =>
       IF IsSome(plan)
       THEN /\ Unwrap(response).error = None
            /\ Unwrap(response).executed = (Unwrap(plan).mode = "execute")
       ELSE /\ IsSome(Unwrap(response).error)
            /\ ~Unwrap(response).executed

\* a plan in execute mode was rejected by validation and answered with
\* executed = false
C18_RejectedExecutePlan ==
    /\ Returned /\ wire # <<>> /\ Branch = "validation_failed" /\ ParsedMode = "execute"
    /\ ErrorCode(wire[1]) = "validation_failed" /\ ~wire[1].executed

\* C19: every request that is answered gets one audit record, the
\* requests answered with parse_failed, validation_failed,
\* request_too_large or the read timeout included: when the handler has
\* returned there are as many audit lines as responses sent.
C19_AuditPerResponse ==
    Returned => Len(auditLog) = Len(wire)

\* a request that did not parse was answered parse_failed and the handler
\* returned without an audit line
C19_ParseFailedNotAudited ==
    /\ Returned /\ wire # <<>> /\ ErrorCode(wire[1]) = "parse_failed"
    /\ ret = "ok" /\ auditLog = <<>>

\* ---------------------------------------------------------------------------
\* Properties of the audit line (Spec)
\* ---------------------------------------------------------------------------

\* the literal that stands for a secret
Redacted == <<"[", "r", "e", "d", "a", "c", "t", "e", "d", "]">>

\* the action with other secret values: another content, other env values
OtherSecretsIn(a) ==
    CASE a.type = "write_file" -> [a EXCEPT !.content = <<"o", "t", "h", "e", "r">>]
      [] a.type = "exec" /\ IsSome(a.env) ->
            [a EXCEPT !.env = Some([k \in 1..Len(Unwrap(a.env)) |->
                                       <<Unwrap(a.env)[k][1], <<"o", "t", "h", "e", "r">> >>])]
      [] OTHER -> a

\* the plan that differs from p in its secret values only
OtherSecrets(p) ==
    [p EXCEPT
        !.confirmation = IF IsSome(p.confirmation)
                         THEN Some([token |-> <<"o", "t", "h", "e", "r">>])
                         ELSE None,
        !.actions = [i \in 1..Len(p.actions) |-> OtherSecretsIn(p.actions[i])]]

\* the plan view of the audit line hides the secrets of plan p
PlanViewRedacted(view, p) ==
    /\ IsSome(p.confirmation) => view.confirmation = Some([token |-> Redacted])
    /\ Len(view.actions) = Len(p.actions)
    /\ \A i \in 1..Len(p.actions) :
          LET a == p.actions[i]
              v == view.actions[i]
          IN  /\ v.type = a.type
              /\ a.type = "write_file" => v.content = Redacted
              /\ a.type = "exec" /\ IsSome(a.env) =>
                    /\ IsSome(v.env) /\ Len(Unwrap(v.env)) = Len(Unwrap(a.env))
                    /\ \A k \in 1..Len(Unwrap(a.env)) :
                          /\ Unwrap(v.env)[k][1] = Unwrap(a.env)[k][1]
                          /\ Unwrap(v.env)[k][2] = Redacted

\* the result view of the audit line hides what the actions captured
ResultViewRedacted(view, res) ==
    /\ Len(view.results) = Len(res.results)
    /\ \A i \in 1..Len(res.results) :
          LET r == view.results[i]
          IN  /\ r.type = res.results[i].type
              /\ r.type = "exec" => r.stdout = "[redacted]" /\ r.stderr = "[redacted]"
              /\ r.type = "read_file" => r.content_base64 = Some("[redacted]")

\* C20: in every audit line confirmation.token, every write_file content,
\* every exec env value (keys kept), every exec result stdout and stderr
\* and every read_file result content_base64 hold "[redacted]" instead of
\* their value, and the plan that differs only in those values has the
\* same plan view.
C20_AuditRedacted ==
    \A n \in 1..Len(auditLog) :
       /\ IsSome(plan) /\ IsSome(response)
       /\ PlanViewRedacted(auditLog[n].plan, Unwrap(plan))
       /\ ResultViewRedacted(auditLog[n].result, Unwrap(response))
       /\ redact_plan(OtherSecrets(Unwrap(plan))) = auditLog[n].plan

\* a plan with a token, an exec with an env value and a write_file with a
\* content was run and its audit line was written
C20_SecretsAudited ==
    /\ Returned /\ Len(auditLog) = 1 /\ IsSome(plan) /\ Unwrap(plan).mode = "execute"
    /\ Unwrap(plan).confirmation = Some([token |-> T_default])
    /\ Len(Unwrap(plan).actions) = 2
    /\ Unwrap(plan).actions[1].type = "exec" /\ IsSome(Unwrap(plan).actions[1].env)
    /\ Unwrap(plan).actions[2] = WriteFileOf(S_tmp_a)
    /\ Unwrap(response).results[1].stdout = "captured"
    /\ OtherSecrets(Unwrap(plan)) # Unwrap(plan)

\* ---------------------------------------------------------------------------
\* Properties of the exec handler (PolicySpec, Spec)
\* ---------------------------------------------------------------------------

\* the children among these effects that were spawned and neither waited
\* for nor killed: they are still running
RunningAfter(did) ==
    { i \in 1..Len(did) :
        /\ did[i].op = "spawn"
        /\ ~\E j \in (i + 1)..Len(did) :
              did[j].op \in {"wait", "kill"} /\ did[j].target = did[i].target }

\* the exec handler was run on the host (the gates let the action through)
ExecHandled ==
    /\ Dispatched /\ polIn.mode = "execute" /\ polIn.action.type = "exec"
    /\ ~Unwrap(polOut).denied
    /\ Unwrap(polOut).requires => Unwrap(polOut).valid

\* C21: an exec whose child has not exited after timeout_sec is answered
\* ok = false, exit_code = null, exec_timed_out, and the child is killed:
\* it is no longer running once the result is produced; a spawn failure is
\* answered ok = false, exec_failed.
C21_TimedOutChildKilled ==
    ExecHandled =>
       LET o == Unwrap(polOut).out
       IN  /\ Unwrap(polOut).host = "timed_out" =>
                 /\ ~o.result.ok /\ o.result.exit_code = None
                 /\ IsSome(o.result.error)
                 /\ Unwrap(o.result.error).code = "exec_timed_out"
                 /\ RunningAfter(o.did) = {}
           /\ Unwrap(polOut).host = "spawn_failed" =>
                 /\ ~o.result.ok
                 /\ IsSome(o.result.error)
                 /\ Unwrap(o.result.error).code = "exec_failed"

\* the result of a timed-out /bin/echo was produced while its child, never
\* killed, is still running
C21_ChildOutlivesResult ==
    /\ ExecHandled /\ Unwrap(polOut).host = "timed_out"
    /\ polIn.action.argv = <<S_bin_echo>>
    /\ ~Unwrap(polOut).out.result.ok
    /\ Unwrap(polOut).out.did = <<Spawn(<<S_bin_echo>>)>>
    /\ RunningAfter(Unwrap(polOut).out.did) = {1}

\* ---------------------------------------------------------------------------
\* actions::files::read, one turn of its loop at a time (ReadSpec)
\* ---------------------------------------------------------------------------

\* let mut buf = [0u8; 4096]
READ_BUF == 4096

\* how many times file.read may return a single byte
MaxShortReads == 2

\* the connection handler and the single-function evaluations are at rest
AtRest ==
    /\ confirm_token = T_default
    /\ pc = "accept"
    /\ client = [doc |-> [text |-> None, len |-> 0], remaining |-> 0, shorts |-> 0,
                 trickle |-> FALSE, endless |-> FALSE, closed |-> FALSE]
    /\ ConnInit
    /\ polIn = NoPolicyRun /\ polOut = None
    /\ valIn = NoValidateRun /\ valOut = None

restVars == <<confirm_token, pc, client, pending, timer, input, exceeded, idle, received,
              plan, idx, results, effects, response, wire, wshut, auditLog, ret,
              polIn, polOut, valIn, valOut>>

\* the values of read.max_bytes tried (the validator admits 1..=65536)
ReadMaxes == {1, 2, READ_BUF - 1, READ_BUF, READ_BUF + 1, MAX_READ_FILE_BYTES}

\* the file sizes tried against max
FileSizes(max) ==
    {0, 1, max - 1, max, max + 1, max + 2, max + READ_BUF, max + READ_BUF + 1}

\* data is kept as the ranges <<offset in the file, length>> appended to it
ReadInit ==
    /\ AtRest
    /\ cli = None /\ aud = None
    /\ \E max \in ReadMaxes : \E size \in FileSizes(max) :
          rd = [max |-> max, size |-> size, stage |-> "open", pos |-> 0, data |-> <<>>,
                len |-> 0, shorts |-> 0, result |-> None]

\* base64 STANDARD.encode of these ranges: whole 3-byte groups, then a group
\* of 1 or 2 bytes padded with "="
Base64Encode(ranges, n) ==
    [of |-> ranges, quads |-> (n + 2) \div 3, pad |-> (3 - (n % 3)) % 3]

\* the number of bytes a base64 text decodes to
Base64DecodedLen(b64) == 3 * b64.quads - b64.pad

\* &data[..k] on the ranges of data
RECURSIVE Prefix(_, _)
Prefix(ranges, k) ==
    IF ranges = <<>> \/ k = 0 THEN <<>>
    ELSE IF Head(ranges)[2] >= k THEN << <<Head(ranges)[1], k>> >>
    ELSE <<Head(ranges)>> \o Prefix(Tail(ranges), k - Head(ranges)[2])

\* faulty variant: all the bytes file.read returned are kept
KeptOf_Unclamped(n, max, len) == n

\* n.min(remaining), remaining = max.saturating_add(1).saturating_sub(data.len())
KeptOf(n, max, len) == Min(n, (max + 1) - len)

\* File::open fails
ReadOpenFails ==
    /\ rd # None /\ rd.stage = "open"
    /\ rd' = [rd EXCEPT !.stage = "returned",
                        !.result = Some(ReadFileResult(FALSE, None, FALSE,
                                          ActionErr("read_failed", "read failed")))]
    /\ UNCHANGED <<restVars, cli, aud>>

\* File::open succeeds; data is empty
ReadOpen ==
    /\ rd # None /\ rd.stage = "open"
    /\ rd' = [rd EXCEPT !.stage = "loop"]
    /\ UNCHANGED <<restVars, cli, aud>>

\* one turn of `while data.len() < max.saturating_add(1)` in which
\* file.read returns n > 0 bytes: a full buffer, what is left of the file,
\* or a single byte
ReadTurn ==
    /\ rd # None /\ rd.stage = "loop" /\ rd.len < rd.max + 1
    /\ rd.pos < rd.size
    /\ \E short \in BOOLEAN :
          /\ short => rd.shorts < MaxShortReads
          /\ LET n == IF short THEN 1 ELSE Min(READ_BUF, rd.size - rd.pos)
                 kept == KeptOf(n, rd.max, rd.len)
             IN  rd' = [rd EXCEPT !.data = Append(rd.data, <<rd.pos, kept>>),
                                  !.len = rd.len + kept,
                                  !.pos = rd.pos + n,
                                  !.shorts = IF short THEN rd.shorts + 1 ELSE rd.shorts]
    /\ UNCHANGED <<restVars, cli, aud>>

\* file.read returns Err
ReadTurnFails ==
    /\ rd # None /\ rd.stage = "loop" /\ rd.len < rd.max + 1
    /\ rd' = [rd EXCEPT !.stage = "returned",
                        !.result = Some(ReadFileResult(FALSE, None, FALSE,
                                          ActionErr("read_failed", "read failed")))]
    /\ UNCHANGED <<restVars, cli, aud>>

\* the loop ends, by Ok(0) => break or by its condition, and the result is
\* built from data
ReadReturn ==
    /\ rd # None /\ rd.stage = "loop"
    /\ rd.len >= rd.max + 1 \/ rd.pos >= rd.size
    /\ LET truncated == rd.len > rd.max
           kept == IF truncated THEN rd.max ELSE rd.len
           slice == Prefix(rd.data, kept)
       IN  rd' = [rd EXCEPT !.stage = "returned",
                            !.result = Some(ReadFileResult(TRUE, Some(Base64Encode(slice, kept)),
                                                           truncated, None))]
    /\ UNCHANGED <<restVars, cli, aud>>

ReadNext == ReadOpenFails \/ ReadOpen \/ ReadTurn \/ ReadTurnFails \/ ReadReturn

ReadSpec == ReadInit /\ [][ReadNext]_vars

\* the ranges are the first total bytes of the file, in order
FirstBytes(ranges, total) ==
    /\ total = 0 <=> ranges = <<>>
    /\ ranges # <<>> =>
          /\ ranges[1][1] = 0
          /\ \A i \in 1..(Len(ranges) - 1) : ranges[i + 1][1] = ranges[i][1] + ranges[i][2]
          /\ \A i \in 1..Len(ranges) : ranges[i][2] >= 1
          /\ ranges[Len(ranges)][1] + ranges[Len(ranges)][2] = total

\* C22: read never holds more than max_bytes + 1 bytes of the file in data,
\* whatever the file size; an ok result has truncated = true iff the file is
\* longer than max_bytes, and content_base64 decodes to the first
\* min(size, max_bytes) bytes of the file.
C22_BoundedRead ==
    rd # None =>
       /\ rd.len <= rd.max + 1
       /\ IsSome(rd.result) /\ Unwrap(rd.result).ok =>
             LET r == Unwrap(rd.result)
                 b64 == Unwrap(r.content_base64)
                 want == IF rd.size < rd.max THEN rd.size ELSE rd.max
             IN  /\ r.truncated = (rd.size > rd.max)
                 /\ Base64DecodedLen(b64) = want
                 /\ FirstBytes(b64.of, want)

\* a file of max_bytes + 4097 bytes was read with max_bytes = 4096, one read
\* returning a single byte: the result is truncated and holds 4096 bytes
C22_LongFileTruncated ==
    /\ rd # None /\ rd.max = 4096 /\ rd.size = 4096 + 4097 /\ rd.shorts = 1
    /\ IsSome(rd.result) /\ Unwrap(rd.result).ok /\ Unwrap(rd.result).truncated
    /\ Base64DecodedLen(Unwrap(Unwrap(rd.result).content_base64)) = 4096
    /\ rd.len = 4097

\* ---------------------------------------------------------------------------
\* llmsh: the send command (ClientSpec)
\* ---------------------------------------------------------------------------

\* Result<ActionPlan>: Ok(plan) or Err(message)
Ok(p) == [ok |-> TRUE, plan |-> p, err |-> ""]
Err(message) == [ok |-> FALSE, plan |-> None, err |-> message]

\* llmsh lib.rs apply_overrides
apply_overrides(p, request_id, session_id) ==
    IF IsSome(request_id) /\ Trim(Unwrap(request_id)) = <<>>
    THEN Err("request_id override must be non-empty")
    ELSE IF IsSome(session_id) /\ Trim(Unwrap(session_id)) = <<>>
    THEN Err("session_id override must be non-empty")
    ELSE Ok([p EXCEPT
                !.request_id = IF IsSome(request_id) THEN Unwrap(request_id) ELSE @,
                !.session_id = IF IsSome(session_id) THEN session_id ELSE @])

\* llmsh lib.rs parse_and_validate_for_send; the input is Some(plan) when it
\* parses
parse_and_validate_for_send(text) ==
    IF ~IsSome(text) THEN Err("parse failed")
    ELSE IF IsSome(validate_action_plan(Unwrap(text))) THEN Err("validation failed")
    ELSE IF Unwrap(text).mode # "execute" THEN Err("client refuses non-execute mode")
    ELSE Ok(Unwrap(text))

\* llmsh main.rs, Command::Send: what is handed to send(), if anything
SendCommand(text, request_id, session_id) ==
    LET validated == parse_and_validate_for_send(text)
    IN  IF ~validated.ok THEN validated
        ELSE apply_overrides(validated.plan, request_id, session_id)

\* the plans given to llmsh send, and the --request-id / --session-id given
ClientInputs ==
    { None }
    \cup { Some(MkPlan(rid, m, as, None)) :
             rid \in {S_r1, <<" ">>, Rep(MAX_REQUEST_ID_BYTES + 1)}, m \in Modes,
             as \in { <<Ping>>, <<ServiceControlOf("restart")>>,
                      <<[ExecOf(<<S_echo>>) EXCEPT !.as_root = TRUE]>> } }

ClientOverrides ==
    { None, Some(<<" ">>), Some(<<"r", "2">>), Some(Rep(MAX_REQUEST_ID_BYTES)),
      Some(Rep(MAX_REQUEST_ID_BYTES + 1)) }

ClientInit ==
    /\ AtRest
    /\ rd = None /\ aud = None
    /\ \E text \in ClientInputs : \E rid \in ClientOverrides : \E sid \in ClientOverrides :
          cli = [input |-> text, request_id |-> rid, session_id |-> sid, exited |-> FALSE,
                 sent |-> <<>>]

\* llmsh send runs: stream.write_all(canonical) when a plan came out,
\* otherwise the error is returned from main
ClientRun ==
    /\ cli # None /\ ~cli.exited
    /\ LET out == SendCommand(cli.input, cli.request_id, cli.session_id)
       IN  cli' = [cli EXCEPT !.exited = TRUE,
                              !.sent = IF out.ok THEN <<out.plan>> ELSE <<>>]
    /\ UNCHANGED <<restVars, rd, aud>>

ClientSpec == ClientInit /\ [][ClientRun]_vars

\* the input with the overrides given put in place
Overridden(p, request_id, session_id) ==
    [p EXCEPT !.request_id = IF IsSome(request_id) THEN Unwrap(request_id) ELSE @,
              !.session_id = IF IsSome(session_id) THEN session_id ELSE @]

\* the override is absent or not blank
UsableOverride(o) == ~IsSome(o) \/ Trim(Unwrap(o)) # <<>>

\* C23: what llmsh send writes is the plan with the overrides applied, and
\* it has passed the validator in that form: an input whose request_id is
\* blank is sent when a non-blank override makes it valid, and no plan that
\* fails validation after the overrides is written.
C23_SentPlanValidated ==
    cli # None /\ cli.exited =>
       /\ \A i \in 1..Len(cli.sent) :
             /\ IsSome(cli.input)
             /\ cli.sent[i] = Overridden(Unwrap(cli.input), cli.request_id, cli.session_id)
             /\ ~IsSome(validate_action_plan(cli.sent[i]))
       /\ ( /\ IsSome(cli.input)
            /\ UsableOverride(cli.request_id) /\ UsableOverride(cli.session_id)
            /\ Unwrap(cli.input).mode = "execute"
            /\ ~IsSome(validate_action_plan(
                         Overridden(Unwrap(cli.input), cli.request_id, cli.session_id))) )
          => Len(cli.sent) = 1

\* llmsh send --request-id <129 bytes> wrote a plan the validator rejects
C23_LongOverrideSent ==
    /\ cli # None /\ cli.exited /\ Len(cli.sent) = 1
    /\ Len(cli.sent[1].request_id) = 129
    /\ Unwrap(cli.input).request_id = S_r1
    /\ validate_action_plan(cli.sent[1]) = Some("request_id is too long")

\* ---------------------------------------------------------------------------
\* Properties of parsing and of the request-level answers (Spec)
\* ---------------------------------------------------------------------------

\* llmsh lib.rs validate_verdict on the text of the request
validate_verdict(text) ==
    IF ~IsSome(text) \/ ~IsSome(from_str(Unwrap(text)))
    THEN [ok |-> FALSE, code |-> "parse_failed"]
    ELSE IF IsSome(validate_action_plan(Unwrap(from_str(Unwrap(text)))))
    THEN [ok |-> FALSE, code |-> "validation_failed"]
    ELSE [ok |-> TRUE, code |-> "none"]

\* the JSON object holds a field the schema does not define, at the root,
\* in confirmation or in an action (ping has no field but its type)
HasUnknownField(obj) ==
    \/ \E f \in DOMAIN obj :
          f \notin {"request_id", "session_id", "version", "mode", "actions", "confirmation"}
    \/ IsSome(obj.confirmation) /\ \E f \in DOMAIN Unwrap(obj.confirmation) : f # "token"
    \/ \E i \in 1..Len(obj.actions) :
          LET a == obj.actions[i]
          IN  IF a.type = "ping" THEN DOMAIN a # {"type"}
              ELSE \E f \in DOMAIN a : f \notin ActionFields[a.type]

\* the whole document of the request at hand was read
DocumentRead == IsSome(client.doc.text) /\ ~exceeded /\ input >= client.doc.len

\* C24: a request whose document holds an unknown field at any level - the
\* root, confirmation, any action variant, ping included - does not parse:
\* the daemon dispatches nothing and answers parse_failed, and llmsh
\* validate reports parse_failed.
C24_UnknownFieldsRejected ==
    DocumentRead /\ HasUnknownField(Unwrap(client.doc.text)) =>
       /\ plan = None /\ results = <<>> /\ effects = <<>>
       /\ IsSome(response) => ErrorCode(Unwrap(response)) = "parse_failed"
       /\ validate_verdict(client.doc.text).code = "parse_failed"

\* the request {"type":"ping","extra":1} was answered with a pong
C24_PingExtraDispatched ==
    /\ Returned /\ wire # <<>> /\ IsSome(client.doc.text)
    /\ Unwrap(client.doc.text).actions = <<[type |-> "ping", extra |-> 1]>>
    /\ wire[1].error = None /\ wire[1].results = <<PongResult>>
    /\ validate_verdict(client.doc.text).ok

\* the plan the request parses to (PlanParsed)
ParsedPlan == Unwrap(parse_action_plan(input, client.doc))

\* a message made by format! from a fixed text and a value
Formatted(text, value) == <<text, value>>

\* In the two formulas below a dispatched request is one whose plan the
\* handler holds (plan is set by BeginDispatch alone); the branch taken is
\* worked out for the other requests only.


\* C25 as stated: a request that does not parse is answered parse_failed
\* under request_id "unknown"; one that parses and fails validation is
\* answered validation_failed under the plan's request_id with the
\* validator's message, nothing added, as error.message; a dispatched one is
\* answered under the plan's request_id with error = null.
C25_AsStated ==
    IsSome(response) =>
       LET r == Unwrap(response)
       IN  IF IsSome(plan)
           THEN r.request_id = Unwrap(plan).request_id /\ r.error = None
           ELSE \A b \in {Branch} :
                   /\ b = "parse_failed" =>
                         ErrorCode(r) = "parse_failed" /\ r.request_id = S_unknown
                   /\ b = "validation_failed" =>
                         \A p \in {ParsedPlan} :
                            /\ ErrorCode(r) = "validation_failed"
                            /\ r.request_id = p.request_id
                            /\ ErrorMessage(r) =
                                 Formatted("", Unwrap(validate_action_plan(p)))

\* C25: a request that does not parse is answered parse_failed under
\* request_id "unknown"; one that parses and fails validation is answered
\* validation_failed under the plan's request_id, error.message being
\* "validation failed: " followed by the validator's message; a dispatched
\* one is answered under the plan's request_id with error = null.
C25_RequestAnswers ==
    IsSome(response) =>
       LET r == Unwrap(response)
       IN  IF IsSome(plan)
           THEN r.request_id = Unwrap(plan).request_id /\ r.error = None
           ELSE \A b \in {Branch} :
                   /\ b = "parse_failed" =>
                         ErrorCode(r) = "parse_failed" /\ r.request_id = S_unknown
                   /\ b = "validation_failed" =>
                         \A p \in {ParsedPlan} :
                            /\ ErrorCode(r) = "validation_failed"
                            /\ r.request_id = p.request_id
                            /\ ErrorMessage(r) =
                                 Formatted("validation failed: ", Unwrap(validate_action_plan(p)))

\* the write_file request with mode "abc" was answered
\* "validation failed: write_file.mode is invalid" under its own request_id
C25_InvalidModeAnswered ==
    /\ Returned /\ wire # <<>> /\ Branch = "validation_failed"
    /\ ParsedPlan.actions[1].type = "write_file"
    /\ ParsedPlan.actions[1].mode = <<"a", "b", "c">>
    /\ wire[1].request_id = S_r1
    /\ ErrorCode(wire[1]) = "validation_failed"
    /\ ErrorMessage(wire[1]) = Formatted("validation failed: ", "write_file.mode is invalid")

\* ---------------------------------------------------------------------------
\* Properties of the order of the validator's checks (ValidateSpec)
\* ---------------------------------------------------------------------------

\* the checks of the plan's own fields in the order request_id, session_id,
\* version, actions count, confirmation
PlanChecksTopDown(p) ==
    <<  <<Trim(p.request_id) = <<>>, "request_id must be non-empty">>,
        <<Len(p.request_id) > MAX_REQUEST_ID_BYTES, "request_id is too long">>,
        <<IsSome(p.session_id) /\ Trim(Unwrap(p.session_id)) = <<>>,
          "session_id must be non-empty when provided">>,
        <<IsSome(p.session_id) /\ Len(Unwrap(p.session_id)) > MAX_SESSION_ID_BYTES,
          "session_id is too long">>,
        <<Trim(p.version) = <<>>, "version must be non-empty">>,
        <<Len(p.version) > MAX_VERSION_BYTES, "version is too long">>,
        <<Len(p.actions) > MAX_ACTIONS, "too many actions">>,
        <<IsSome(p.confirmation) /\ Trim(Unwrap(p.confirmation).token) = <<>>,
          "confirmation.token must be non-empty">>,
        <<IsSome(p.confirmation) /\ Len(Unwrap(p.confirmation).token) > MAX_TOKEN_BYTES,
          "confirmation.token is too long">> >>

\* the checks of an exec action in the order argv, cwd, env, timeout_sec,
\* as_root, reason, danger, recovery
ExecChecksTopDown(p, exec) ==
    OrElse(
        FirstErr(
            <<  <<exec.argv = <<>>, "exec.argv must be non-empty">>,
                <<Len(exec.argv) > MAX_EXEC_ARGC, "exec.argv has too many args">>,
                <<\E i \in 1..Len(exec.argv) : Len(exec.argv[i]) > MAX_EXEC_ARG_BYTES,
                  "exec.argv arg is too long">>,
                <<IsSome(exec.cwd) /\ Trim(Unwrap(exec.cwd)) = <<>>,
                  "exec.cwd must be non-empty when provided">>,
                <<IsSome(exec.env) /\ Len(Unwrap(exec.env)) > MAX_EXEC_ENV_ENTRIES,
                  "exec.env has too many entries">> >>
            \o (IF IsSome(exec.env) THEN EnvChecks(Unwrap(exec.env)) ELSE <<>>)
            \o <<  <<exec.timeout_sec = 0, "exec.timeout_sec must be >= 1">>,
                   <<exec.timeout_sec > MAX_EXEC_TIMEOUT_SEC, "exec.timeout_sec is too large">>,
                   <<exec.as_root, "exec.as_root is not supported">>,
                   <<Trim(exec.reason) = <<>>, "exec.reason must be non-empty">>,
                   <<Len(exec.reason) > MAX_REASON_BYTES, "reason is too long">> >>
            \o DangerRecoveryChecks(exec)),
        IF IsSome(exec.danger)
        THEN require_confirmation(p, "exec requires confirmation when danger is set")
        ELSE None)

\* the actions in index order, an exec by ExecChecksTopDown and the other
\* variants as the validator has them
RECURSIVE ActionsTopDown(_, _)
ActionsTopDown(p, actions) ==
    IF actions = <<>> THEN None
    ELSE OrElse(IF Head(actions).type = "exec" THEN ExecChecksTopDown(p, Head(actions))
                ELSE validate_action(p, Head(actions)),
                ActionsTopDown(p, Tail(actions)))

\* the plan violates at least two of the constraints the validator checks
\* on the plan's own fields or on its exec actions
ViolatesSeveral(p) ==
    \/ Cardinality({ k \in 1..Len(PlanChecksTopDown(p)) : PlanChecksTopDown(p)[k][1] }) >= 2
    \/ IsSome(FirstErr(PlanChecksTopDown(p))) /\ IsSome(validate_actions(p, p.actions))
    \/ Cardinality({ i \in 1..Len(p.actions) : IsSome(validate_action(p, p.actions[i])) }) >= 2
    \/ \E i \in 1..Len(p.actions) :
          /\ p.actions[i].type = "exec"
          /\ Cardinality({ c \in {"argv", "as_root", "cwd", "timeout_sec", "reason"} :
                CASE c = "argv" -> p.actions[i].argv = <<>>
                  [] c = "as_root" -> p.actions[i].as_root
                  [] c = "cwd" -> IsSome(p.actions[i].cwd)
                                    /\ Trim(Unwrap(p.actions[i].cwd)) = <<>>
                  [] c = "timeout_sec" -> p.actions[i].timeout_sec = 0
                  [] OTHER -> Trim(p.actions[i].reason) = <<>> }) >= 2

\* C26: the validator reports the first violated check in the order: the
\* plan's fields top-down (request_id, session_id, version, actions count,
\* confirmation), then the actions in index order, and for an exec its
\* fields top-down (argv, cwd, env, timeout_sec, as_root, reason, danger,
\* recovery).
C26_FirstInDeclaredOrder ==
    IsSome(valOut) =>
       Unwrap(valOut) = OrElse(FirstErr(PlanChecksTopDown(valIn)),
                               ActionsTopDown(valIn, valIn.actions))

\* a plan whose version and confirmation.token are both blank was answered
\* with the message of the confirmation check
C26_ConfirmationBeforeVersion ==
    /\ IsSome(valOut)
    /\ Trim(valIn.version) = <<>>
    /\ IsSome(valIn.confirmation) /\ Trim(Unwrap(valIn.confirmation).token) = <<>>
    /\ Unwrap(valOut) = Some("confirmation.token must be non-empty")

\* ---------------------------------------------------------------------------
\* Properties of the order of the handlers and of the audit append (Spec)
\* ---------------------------------------------------------------------------

\* C27: the actions of a plan are handled in input order without overlap:
\* when the handler of the next action starts (and when the response is
\* built) there is one result per action handled so far and nothing a
\* handler started is still running - a child spawned for an exec has
\* exited or been terminated, also when the exec ended by timeout.
C27_NoOverlap ==
    pc = "dispatch" => Len(results) = idx /\ RunningAfter(effects) = {}

\* the handler of the second action starts while the child of the first,
\* an exec that timed out, is still running
C27_NextStartsBesideChild ==
    /\ pc = "dispatch" /\ idx = 1 /\ Len(Unwrap(plan).actions) = 2
    /\ Unwrap(plan).actions[1].type = "exec"
    /\ IsSome(results[1].error) /\ Unwrap(results[1].error).message = "exec timed out"
    /\ effects = <<Spawn(Unwrap(plan).actions[1].argv)>>

\* the audit append of a dispatched request has been reached or is over
AuditReached == pc = "audit" \/ (pc = "done" /\ IsSome(plan) /\ wshut)

\* C28: the audit record of a dispatched request is appended only after the
\* whole response was written and the connection shut down for writes;
\* whether the append succeeds or fails the peer has the same response, the
\* one built from the plan and its results; and the task of the connection
\* ends either way, the listener going on with the next connection.
C28_AuditAfterResponse ==
    /\ auditLog # <<>> => wshut /\ wire = <<Unwrap(response)>>
    /\ AuditReached => wire = <<PlanResponse(Unwrap(plan), results)>>
    /\ pc = "done" => ENABLED Finish

\* the append failed after the response was written and the write side shut
\* down: the peer has the response and there is no audit line
C28_AuditFailedResponseKept ==
    /\ pc = "done" /\ IsSome(plan) /\ wshut /\ ret = "err" /\ auditLog = <<>>
    /\ wire = <<PlanResponse(Unwrap(plan), results)>>
    /\ Unwrap(plan).mode = "execute" /\ results # <<>>

\* ---------------------------------------------------------------------------
\* audit.rs append_record called by concurrent connection tasks (AuditSpec)
\* ---------------------------------------------------------------------------

MaxConnections == 2

ConnTasks == 1..MaxConnections

\* the plans of the connections: two of them share their request_id
AuditPlans ==
    { [MkPlan(S_r1, "plan_only", <<Ping>>, None) EXCEPT !.session_id = Some(<<"s", "1">>)],
      MkPlan(S_r1, "execute", <<ExecOf(<<S_bin_echo, <<"h", "i">> >>)>>, None),
      MkPlan(<<"r", "2">>, "execute", <<Ping>>, Some([token |-> T_default])) }

\* the lengths in bytes of the line, newline included: the record of a small
\* plan, and the record of a plan that fills MAX_REQUEST_BYTES and is
\* written out again with every optional field
AuditLineLens == {200, MAX_REQUEST_BYTES + 8192}

\* each task owns its plan and response; the file is the only thing shared.
\* The file is kept as the pieces written to it, in the order the kernel
\* appended them.
AuditInit ==
    /\ AtRest
    /\ rd = None /\ cli = None
    /\ aud = [file |-> <<>>,
              task |-> [t \in ConnTasks |->
                          [stage |-> "serve", rec |-> None, len |-> 0, sent |-> 0,
                           ret |-> "none"]]]

\* the connection of task t is answered with a request-level error, or its
\* write or shutdown fails: handle_client returns before append_record
AuditNotReached(t) ==
    /\ aud.task[t].stage = "serve"
    /\ aud' = [aud EXCEPT !.task[t].stage = "done", !.task[t].ret = "err"]
    /\ UNCHANGED <<restVars, rd, cli>>

\* task t calls append_record: the record is built and serialized to a line
AuditSerialize(t) ==
    /\ aud.task[t].stage = "serve"
    /\ \E p \in AuditPlans : \E n \in AuditLineLens :
          aud' = [aud EXCEPT
                    !.task[t].stage = "open",
                    !.task[t].rec = Some(AuditRecord(p, PlanResponse(p,
                                      [i \in 1..Len(p.actions) |-> PongResult]))),
                    !.task[t].len = n]
    /\ UNCHANGED <<restVars, rd, cli>>

\* OpenOptions::new().create(true).append(true).open(audit_path)
AuditOpen(t) ==
    /\ aud.task[t].stage = "open"
    /\ aud' = [aud EXCEPT !.task[t].stage = "write"]
    /\ UNCHANGED <<restVars, rd, cli>>

AuditOpenFails(t) ==
    /\ aud.task[t].stage = "open"
    /\ aud' = [aud EXCEPT !.task[t].stage = "done", !.task[t].ret = "err"]
    /\ UNCHANGED <<restVars, rd, cli>>

Piece(t, from, to) ==
    [task |-> t, rec |-> Unwrap(aud.task[t].rec), from |-> from, to |-> to]

\* faulty variant: the line is handed to the kernel 4096 bytes at a time
AuditWrite_ByPages(t) ==
    /\ aud.task[t].stage = "write" /\ aud.task[t].sent < aud.task[t].len
    /\ LET n == Min(aud.task[t].len - aud.task[t].sent, 4096)
       IN  aud' = [aud EXCEPT
                     !.file = Append(@, Piece(t, aud.task[t].sent + 1, aud.task[t].sent + n)),
                     !.task[t].sent = @ + n]
    /\ UNCHANGED <<restVars, rd, cli>>

\* file.write_all(&line): tokio's File takes up to 2 MiB of what is left
\* into its buffer and writes the buffer with one write(2); the file was
\* opened with O_APPEND, so the kernel puts the bytes of one write(2)
\* together at the end of the file
AuditWrite(t) ==
    /\ aud.task[t].stage = "write" /\ aud.task[t].sent < aud.task[t].len
    /\ LET n == Min(aud.task[t].len - aud.task[t].sent, 2 * 1024 * 1024)
       IN  aud' = [aud EXCEPT
                     !.file = Append(@, Piece(t, aud.task[t].sent + 1, aud.task[t].sent + n)),
                     !.task[t].sent = @ + n]
    /\ UNCHANGED <<restVars, rd, cli>>

\* the write fails (the disk is full, the file system fails): nothing of
\* the buffer is written, or the first part of it
AuditWriteFails(t) ==
    /\ aud.task[t].stage = "write" /\ aud.task[t].sent < aud.task[t].len
    /\ LET n == Min(aud.task[t].len - aud.task[t].sent, 2 * 1024 * 1024)
       IN  \E k \in {0, n \div 2} :
              aud' = [aud EXCEPT
                        !.file = IF k = 0 THEN @
                                 ELSE Append(@, Piece(t, aud.task[t].sent + 1,
                                                      aud.task[t].sent + k)),
                        !.task[t].stage = "done", !.task[t].ret = "err"]
    /\ UNCHANGED <<restVars, rd, cli>>

\* file.flush() after the whole line was taken: append_record returns Ok
AuditFlush(t) ==
    /\ aud.task[t].stage = "write" /\ aud.task[t].sent = aud.task[t].len
    /\ aud' = [aud EXCEPT !.task[t].stage = "done", !.task[t].ret = "ok"]
    /\ UNCHANGED <<restVars, rd, cli>>

AuditNext ==
    \E t \in ConnTasks :
       \/ AuditNotReached(t)
       \/ AuditSerialize(t)
       \/ AuditOpen(t)
       \/ AuditOpenFails(t)
       \/ AuditWrite(t)
       \/ AuditWriteFails(t)
       \/ AuditFlush(t)

AuditSpec == AuditInit /\ [][AuditNext]_vars

\* the places in the file of the pieces task t wrote
PiecesOf(t) == { i \in 1..Len(aud.file) : aud.file[i].task = t }

\* the file holds the record of task t whole and once: its pieces lie side by
\* side, nothing of another task between them, and run from the first byte of
\* the line to its newline
WholeRecord(t) ==
    /\ PiecesOf(t) # {}
    /\ \A i \in PiecesOf(t) : \A j \in PiecesOf(t) : \A k \in i..j : k \in PiecesOf(t)
    /\ \A i \in PiecesOf(t) :
          /\ aud.file[i].rec = Unwrap(aud.task[t].rec)
          /\ IF i - 1 \in PiecesOf(t) THEN aud.file[i].from = aud.file[i - 1].to + 1
             ELSE aud.file[i].from = 1
          /\ IF i + 1 \in PiecesOf(t) THEN TRUE ELSE aud.file[i].to = aud.task[t].len

\* the ids of a record are those of the plan it holds, and its result
\* answers that plan
IdsOfOwnPlan(rec) ==
    /\ rec.request_id = rec.plan.request_id
    /\ rec.session_id = rec.plan.session_id
    /\ rec.result.request_id = rec.plan.request_id
    /\ Len(rec.result.results) = Len(rec.plan.actions)

AllTasksDone == \A t \in ConnTasks : aud.task[t].stage = "done"

Validated == valOut = Some(None)

\* the digits of a mode string: what is left of it without the surrounding
\* whitespace and one leading "0o"
ModeDigits(mode) ==
    LET keep == { i \in 1..Len(mode) : ~IsWs(mode[i]) }
        lo == CHOOSE i \in keep : \A j \in keep : i <= j
        hi == CHOOSE i \in keep : \A j \in keep : i >= j
    IN  IF keep = {} THEN <<>>
        ELSE IF hi > lo /\ mode[lo] = "0" /\ mode[lo + 1] = "o" THEN SubSeq(mode, lo + 2, hi)
        ELSE SubSeq(mode, lo, hi)

\* the number three or four octal digits stand for
ModeValue(ds) ==
    LET d(i) == CHOOSE v \in 0..7 : Digits[v + 1] = ds[i]
    IN  IF Len(ds) = 3 THEN 64 * d(1) + 8 * d(2) + d(3)
        ELSE 512 * d(1) + 64 * d(2) + 8 * d(3) + d(4)

\* C30: for every write_file.mode the validator accepts - three or four
\* digits 0..7 after trimming and stripping one "0o" - parse_mode succeeds
\* with the octal value of those digits and the write handler never answers
\* invalid_mode_string; and no accepted plan holds an exec without argv[0]
\* or a cgroup_apply without target, which the handlers refuse defensively.
C30_ValidatorAndHandlersAgree ==
    Validated =>
       \A i \in 1..Len(valIn.actions) :
          LET a == valIn.actions[i]
          IN  /\ a.type = "write_file" =>
                    /\ Len(ModeDigits(a.mode)) \in {3, 4}
                    /\ \A k \in 1..Len(ModeDigits(a.mode)) : ModeDigits(a.mode)[k] \in OctalDigits
                    /\ parse_mode(a.mode) = Some(ModeValue(ModeDigits(a.mode)))
                    /\ \A host \in HostOutcomes("execute", a) :
                          files_write(a, host).result.error
                             # ActionErr("invalid_mode_string",
                                         "mode must be an octal string like 0644")
              /\ a.type = "exec" =>
                    /\ a.argv # <<>>
                    /\ \A host \in HostOutcomes("execute", a) :
                          exec_run(a, host).result.error
                             # ActionErr("uncoded", "missing argv[0]")
              /\ a.type = "cgroup_apply" =>
                    /\ IsSome(a.pid) \/ IsSome(a.unit)
                    /\ plan_cgroup_apply(a).ok /\ plan_cgroup_apply(a).error = None

\* the mode "\t0o7777 " was accepted and parses to 4095
C30_PrefixedModeParsed ==
    /\ Validated
    /\ valIn.actions[1].type = "write_file"
    /\ valIn.actions[1].mode = <<"\t", "0", "o", "7", "7", "7", "7", " ">>
    /\ parse_mode(valIn.actions[1].mode) = Some(4095)
    /\ files_write(valIn.actions[1], "ok").result.ok

====
